---- MODULE Spec2Model ----
(***************************************************************************)
(* A model of the mjs interpreter core: the moving garbage-collected heap  *)
(* with its tracked/untracked handles and packed values (src/mjs/gc_heap.h)*)
(* and the recursive-descent parser with automatic semicolon insertion     *)
(* (parser.cpp).                                                           *)
(***************************************************************************)
EXTENDS Integers, Sequences, FiniteSets, TLC

\* ------------------------------------------------------------------------
\* Bounds of the model
\* ------------------------------------------------------------------------
Cap == 6            \* capacity (in slots) of a heap
MaxHandles == 2     \* number of tracked-handle variables of the mutator
MaxAllocs == 3      \* number of allocate_and_construct calls that succeed

\* ------------------------------------------------------------------------
\* Program constants
\* ------------------------------------------------------------------------
slot_size == 8
\* TLC's largest integer stands for UINT32_MAX
unallocated_type_index == 2147483647
gc_moved_type_index == unallocated_type_index - 1

HeapIds == {1, 2}
HandleIds == 1 .. MaxHandles
Positions == 0 .. (Cap - 1)

bytes_to_slots(bytes) == (bytes + slot_size - 1) \div slot_size

\* ------------------------------------------------------------------------
\* The type registry: gc_type_info::types_, indices in registration order
\* ------------------------------------------------------------------------
\* a trivially destructible payload of raw words (a string)
T_string == 0
\* an object embedding one gc_heap_ptr_untracked
T_node == 1
\* an object embedding one value_representation
T_box == 2
\* a native function object (no embedded references)
T_func == 3

types_ ==
  << [destroy_ |-> FALSE, fixup_ |-> FALSE, name_ |-> "string"],
     [destroy_ |-> TRUE,  fixup_ |-> TRUE,  name_ |-> "node"],
     [destroy_ |-> TRUE,  fixup_ |-> TRUE,  name_ |-> "box"],
     [destroy_ |-> TRUE,  fixup_ |-> FALSE, name_ |-> "func"] >>

TypeIndices == 0 .. (Len(types_) - 1)

\* slot_allocation_header::type_info
type_info(t) == types_[t + 1]

\* slot_allocation_header::active
active(a) == a.type /= unallocated_type_index /\ a.type /= gc_moved_type_index

\* A slot of storage_. The union is kept as one record: `size`/`type` are the
\* allocation-header view, `word` the representation / new_position view.
\* `oid` and `src` are history fields: the serial number of the allocation the
\* record belongs to (0 for payload slots), and the value a packed value was
\* made from (its x the allocation the value's handle named).
NoValue == [type |-> "none", x |-> 0]
EmptySlot == [size |-> 0, type |-> 0, word |-> 0, oid |-> 0, src |-> NoValue]
EmptyStorage == [i \in Positions |-> EmptySlot]

\* ------------------------------------------------------------------------
\* Values and their packed representation
\* ------------------------------------------------------------------------
\* A value is [type, x]: x is the boolean (0/1), the bits of the double, or
\* the slot index of the tracked handle the value holds (string, object,
\* native function). Doubles are their bit patterns: patterns below nan_bits
\* are ordinary numbers, patterns from nan_bits on are NaNs.
nan_bits == 16
payload_range == 8

isnan(d) == d >= nan_bits

HeapKinds == {"string", "object", "native_function"}

type_tag(t) ==
  CASE t = "undefined" -> 1
    [] t = "null" -> 2
    [] t = "boolean" -> 3
    [] t = "string" -> 4
    [] t = "object" -> 5
    [] t = "native_function" -> 6

tag_type(n) ==
  CASE n = 1 -> "undefined"
    [] n = 2 -> "null"
    [] n = 3 -> "boolean"
    [] n = 4 -> "string"
    [] n = 5 -> "object"
    [] n = 6 -> "native_function"

\* value_representation::to_representation: numbers keep their bits, every
\* NaN becomes the one quiet NaN; the other kinds live in the NaN space as
\* tag and payload.
to_representation(v) ==
  IF v.type = "number"
  THEN (IF isnan(v.x) THEN nan_bits ELSE v.x)
  ELSE nan_bits + type_tag(v.type) * payload_range + v.x

repr_is_number(r) == r <= nan_bits
repr_tag(r) == (r - nan_bits) \div payload_range
repr_payload(r) == (r - nan_bits) % payload_range

\* value_representation::get_value
get_value(r) ==
  IF repr_is_number(r)
  THEN [type |-> "number", x |-> r]
  ELSE [type |-> tag_type(repr_tag(r)), x |-> repr_payload(r)]

\* does the representation hold a slot index?
repr_has_pos(r) == ~repr_is_number(r) /\ tag_type(repr_tag(r)) \in HeapKinds

\* the representation with its slot index replaced
repr_with_pos(r, pos) == nan_bits + repr_tag(r) * payload_range + pos

\* ------------------------------------------------------------------------
\* State
\* ------------------------------------------------------------------------
VARIABLES
  heaps,        \* the gc_heap objects that exist
  storage,      \* storage_ of every heap: slot index -> slot
  next_free,    \* next_free_ of every heap
  pointers,     \* pointers_ of every heap: the sequence of registered handles
  hp,           \* the mutator's tracked handles: [live, heap_, pos_]
  gc_state,     \* gc_state_ and the position of garbage_collect()
  new_heap,     \* the destination heap of the running collection
  req,          \* the allocate_and_construct call in progress
  result,       \* outcome of the last heap operation
  serial,       \* history: number of allocations made
  destroyed,    \* history: how often the destroy hook ran, per allocation
  snap,         \* history: the heap when the last collection started
  registered,   \* gc_type_info::types_: the registered types, in order
  constructing, \* the allocate_and_construct calls whose constructor runs
  objects,      \* the objects of object::all_objects_ and garbage_collect(roots)
  tokens,       \* parser: the lexer's token stream
  cur,          \* parser: index of the lexer's current token
  token_start_, \* parser: token_start_
  line_break_skipped_, \* parser: line_break_skipped_
  expression_pos_, \* parser: the expression extent stack, innermost last
  statement_pos_,  \* parser: the statement extent stack, innermost last
  log,          \* parser history: the decisions that depend on line breaks
  out,          \* parser: the statement list l of parse()
  ast,          \* parser: what parse() returned or threw
  pstate        \* parser: "off", "run", "done" or "error"

heapVars == <<heaps, storage, next_free, pointers, hp, gc_state, new_heap,
              req, result, serial, destroyed, snap>>
parserVars == <<tokens, cur, token_start_, line_break_skipped_, expression_pos_,
                statement_pos_, log, out, ast, pstate>>
typeVars == <<registered, constructing, objects>>
vars == <<heapVars, parserVars, typeVars>>

\* ------------------------------------------------------------------------
\* gc_heap::pointer_set
\* ------------------------------------------------------------------------
\* an insert that adds to the front
insert_front(set_, p) == <<p>> \o set_

\* pointer_set::insert: push_back
insert(set_, p) == Append(set_, p)

RemoveAt(s, i) == [j \in 1 .. (Len(s) - 1) |-> IF j < i THEN s[j] ELSE s[j + 1]]

\* pointer_set::erase: searches from the back, erases the first match
erase(set_, p) ==
  LET found == {i \in 1 .. Len(set_) : set_[i] = p} IN
  IF found = {} THEN set_
  ELSE RemoveAt(set_, CHOOSE i \in found : \A j \in found : j <= i)

Count(s, p) == Cardinality({i \in 1 .. Len(s) : s[i] = p})

\* ------------------------------------------------------------------------
\* Tracked handles (gc_heap_ptr_untyped)
\* ------------------------------------------------------------------------
NullHandle == [live |-> TRUE, heap_ |-> 0, pos_ |-> 0]
DeadHandle == [live |-> FALSE, heap_ |-> 0, pos_ |-> 0]

\* gc_heap::attach / gc_heap::detach on the pointer sets of all heaps
attach(ps, h, p) == [ps EXCEPT ![h] = insert(ps[h], p)]
detach(ps, h, p) == [ps EXCEPT ![h] = erase(ps[h], p)]

\* no collection and no allocation is in progress: the mutator may act
Idle == gc_state.phase = "idle"

\* the handle variable the mutator constructs next: its handle variables are
\* interchangeable, the first unused one is taken (0 if all are in use)
FreeHandle ==
  IF \A p \in HandleIds : hp[p].live THEN 0
  ELSE CHOOSE p \in HandleIds : ~hp[p].live /\ \A q \in HandleIds : q < p => hp[q].live

\* ------------------------------------------------------------------------
\* gc_heap: walking the records of a storage
\* ------------------------------------------------------------------------
\* the header positions of the records below `nf`, found as run_destructors
\* and calc_used find them: start at 0, advance by the header's size
RECURSIVE RecordsFrom(_, _, _)
RecordsFrom(st, pos, nf) ==
  IF pos >= nf \/ st[pos].size = 0 THEN {}
  ELSE {pos} \cup RecordsFrom(st, pos + st[pos].size, nf)

Records(st, nf) == RecordsFrom(st, 0, nf)

RECURSIVE SumSizes(_, _)
SumSizes(st, S) ==
  IF S = {} THEN 0
  ELSE LET p == CHOOSE q \in S : TRUE IN st[p].size + SumSizes(st, S \ {p})

\* gc_heap::calc_used: sum of the sizes of the active allocations
calc_used(st, nf) == SumSizes(st, {p \in Records(st, nf) : active(st[p])})

\* a destroy that never runs the hook
destroy_never(d, st, p) == d

\* gc_type_info::destroy on the payload of the record at header `p`:
\* the hook runs only if the type has one
destroy(d, st, p) ==
  IF type_info(st[p].type).destroy_
  THEN [d EXCEPT ![st[p].oid] = @ + 1]
  ELSE d

RECURSIVE DestroyAll(_, _, _)
DestroyAll(d, st, S) ==
  IF S = {} THEN d
  ELSE LET p == CHOOSE q \in S : TRUE IN DestroyAll(destroy(d, st, p), st, S \ {p})

\* gc_heap::run_destructors: destroy every record whose header is active
run_destructors(d, st, nf) ==
  DestroyAll(d, st, {p \in Records(st, nf) : active(st[p])})

\* ------------------------------------------------------------------------
\* gc_heap::allocate
\* ------------------------------------------------------------------------
\* the payload slots plus one header slot
num_slots_for(num_bytes) == 1 + bytes_to_slots(num_bytes)

\* a capacity check that lets every request through
fits_always(nf, num_bytes) == TRUE

\* a capacity check that refuses a request that fills the heap exactly
fits_strict(nf, num_bytes) == num_slots_for(num_bytes) < Cap - nf

\* does the reservation stay within the capacity?
fits(nf, num_bytes) == num_slots_for(num_bytes) <= Cap - nf

\* reserve the record at next_free: the header gets its size and the
\* UNALLOCATED type
allocate(st, nf, num_bytes, oid) ==
  [st EXCEPT ![nf] = [size |-> num_slots_for(num_bytes),
                      type |-> unallocated_type_index,
                      word |-> 0, oid |-> oid, src |-> NoValue]]

\* ------------------------------------------------------------------------
\* The collector
\* ------------------------------------------------------------------------
\* a fixup_after_move that hands nothing to gc_heap::fixup
fixup_after_move_never(pos_) == FALSE

\* gc_heap_ptr_untracked::fixup_after_move: a set slot index is handed to
\* gc_heap::fixup
fixup_after_move(pos_) == pos_ /= 0

\* value_representation::fixup_after_move: the same for a representation
\* that holds a slot index
value_fixup_after_move(repr_) == repr_has_pos(repr_)

\* the fixup hook of a type, run on the moved payload: does it hand a field
\* to gc_heap::fixup?
needs_fixup(t, word) ==
  CASE t = T_node -> fixup_after_move(word)
    [] t = T_box -> value_fixup_after_move(word)
    [] OTHER -> FALSE

\* gc_type_info::fixup followed by gc_heap::fixup: the field at new_pos of
\* the new heap is queued for translation
fixup(pend, t, word, new_pos) ==
  IF type_info(t).fixup_ /\ needs_fixup(t, word) THEN Append(pend, new_pos) ELSE pend

\* a gc_move that moves the object whether or not its header is FORWARDED,
\* and leaves the old header as it is
gc_move_again(G, pos) ==
  LET a == G.old[pos - 1]
      hdr == G.nnf
      new_pos == hdr + 1
  IN [old  |-> G.old,
      nst  |-> [i \in Positions |->
                  IF i = hdr THEN [a EXCEPT !.word = 0]
                  ELSE IF i > hdr /\ i < hdr + a.size THEN G.old[pos + (i - new_pos)]
                  ELSE G.nst[i]],
      nnf  |-> hdr + a.size,
      pend |-> fixup(G.pend, a.type, G.old[pos].word, new_pos),
      ret  |-> new_pos]

\* gc_heap::gc_move(pos) on G = [old, nst, nnf, pend]: the old storage, the
\* new heap's storage and next_free, and the pending fixups. Yields G with
\* `ret` the position in the new heap.
gc_move(G, pos) ==
  LET a == G.old[pos - 1] IN
  IF a.type = gc_moved_type_index
  THEN [old |-> G.old, nst |-> G.nst, nnf |-> G.nnf, pend |-> G.pend, ret |-> a.word]
  ELSE
    LET hdr == G.nnf
        new_pos == hdr + 1
        moved == [i \in Positions |->
                    IF i = hdr THEN [a EXCEPT !.word = 0]
                    ELSE IF i > hdr /\ i < hdr + a.size THEN G.old[pos + (i - new_pos)]
                    ELSE G.nst[i]]
    IN [old  |-> [G.old EXCEPT ![pos - 1] = [@ EXCEPT !.type = gc_moved_type_index,
                                                      !.word = new_pos]],
        nst  |-> moved,
        nnf  |-> hdr + a.size,
        pend |-> fixup(G.pend, a.type, G.old[pos].word, new_pos),
        ret  |-> new_pos]

\* the embedded slot index held by the field at slot k of storage st
field_pos(st, k) ==
  IF st[k - 1].type = T_box THEN repr_payload(st[k].word) ELSE st[k].word

\* the field at slot k with its slot index replaced
field_with_pos(st, k, pos) ==
  IF st[k - 1].type = T_box THEN repr_with_pos(st[k].word, pos) ELSE pos

\* ------------------------------------------------------------------------
\* Reachability, as a property of a heap (not computed by the collector)
\* ------------------------------------------------------------------------
\* the payload positions named by the fields embedded in the object at pos
Embedded(st, pos) ==
  LET t == st[pos - 1].type
      w == st[pos].word
  IN IF t = T_node /\ w /= 0 THEN {w}
     ELSE IF t = T_box /\ repr_has_pos(w) THEN {repr_payload(w)}
     ELSE {}

RECURSIVE ReachFrom(_, _)
ReachFrom(st, S) ==
  LET next == S \cup UNION {Embedded(st, p) : p \in S} IN
  IF next = S THEN S ELSE ReachFrom(st, next)

\* the positions of the pointer set's handles
RootPositions(ps) == {hp[ps[i]].pos_ : i \in 1 .. Len(ps)}

Reachable(g) == ReachFrom(storage[g], RootPositions(pointers[g]))

\* ========================================================================
\* The parser (parser.cpp)
\* ========================================================================
MaxTokens == 4      \* longest token stream given to the parser

assignment_precedence == 15
comma_precedence == 16

\* ------------------------------------------------------------------------
\* The lexer's cursor over the token stream
\* ------------------------------------------------------------------------
eof_token == [type |-> "eof", text |-> ""]

\* the length of a token's text
TokLen(t) ==
  CASE t.type \in {"plusplus", "minusminus", "equalequal", "if_", "in_"} -> 2
    [] t.type \in {"var_", "for_", "new_"} -> 3
    [] t.type \in {"else_", "this_", "with_"} -> 4
    [] t.type \in {"while_", "break_"} -> 5
    [] t.type = "return_" -> 6
    [] t.type = "continue_" -> 8
    [] t.type = "function_" -> 8
    [] t.type = "eof" -> 0
    [] OTHER -> 1

\* lexer::current_token with the cursor at index c
Tok(c) == IF c <= Len(tokens) THEN tokens[c] ELSE eof_token

\* lexer::text_position with the cursor at index c: the end of the current
\* token
RECURSIVE text_position(_)
text_position(c) ==
  IF c = 0 THEN 0
  ELSE IF c > Len(tokens) THEN text_position(Len(tokens))
  ELSE text_position(c - 1) + TokLen(tokens[c])

\* lexer::next_token
next_token(c) == IF c <= Len(tokens) THEN c + 1 ELSE c

\* is_literal
is_literal(tt) ==
  tt \in {"undefined_", "null_", "true_", "false_", "numeric_literal", "string_literal"}

\* ------------------------------------------------------------------------
\* operator_precedence, is_right_to_left
\* ------------------------------------------------------------------------
operator_precedence(tt) ==
  CASE tt \in {"multiply", "divide", "mod"} -> 5
    [] tt \in {"plus", "minus"} -> 6
    [] tt \in {"lshift", "rshift", "rshiftshift"} -> 7
    [] tt \in {"lt", "ltequal", "gt", "gtequal"} -> 8
    [] tt \in {"equalequal", "notequal"} -> 9
    [] tt = "and_" -> 10
    [] tt = "xor_" -> 11
    [] tt = "or_" -> 12
    [] tt = "andand" -> 13
    [] tt = "oror" -> 13
    [] tt \in {"question", "equal", "plusequal", "minusequal", "multiplyequal",
               "divideequal", "modequal", "lshiftequal", "rshiftequal",
               "rshiftshiftequal", "andequal", "orequal", "xorequal"}
         -> assignment_precedence
    [] tt = "comma" -> comma_precedence
    [] OTHER -> comma_precedence + 1

\* no operator groups to the right
is_right_to_left_never(tt) == FALSE

is_right_to_left(tt) == operator_precedence(tt) >= assignment_precedence

\* ------------------------------------------------------------------------
\* Parser state and results
\* ------------------------------------------------------------------------
\* The members of a parser: the lexer's cursor, token_start_,
\* line_break_skipped_, the two extent stacks (the entry offsets, innermost
\* last) and the exception in flight ("" when none). log is the history of
\* the decisions that depend on line breaks.
NewParser == [cur |-> 1, token_start_ |-> 0, line_break_skipped_ |-> FALSE,
              expression_pos_ |-> << >>, statement_pos_ |-> << >>, err |-> "",
              log |-> << >>]

\* an AST node: kind, extent start and end, operator or text, children
Node(kind, from, to, op, kids) == <<kind, from, to, op, kids>>
NoNode == Node("none", 0, 0, "", << >>)

Ret(S, v) == [s |-> S, v |-> v]
Failed(R) == R.s.err /= ""
throw(S, what) == [S EXCEPT !.err = what]

\* history: function fn, entered with the lexer at token index at and
\* line_break_skipped_ being flag, did (acted) or did not do what it may do:
\* consume a `;`, consume the postfix operator, parse the return's expression
note(S, fn, at, flag, acted) ==
  [S EXCEPT !.log = Append(@, [fn |-> fn, at |-> at, flag |-> flag, acted |-> acted,
                               err |-> S.err /= ""])]

\* history: an iteration of the loop fn that began in state S0 and has come
\* to its end in state S without raising; acted: it consumed a token
turn(S, fn, S0) == note(S, fn, S0.cur, S0.line_break_skipped_, S.cur > S0.cur)

\* run F on the result R unless an exception is in flight
Then(R, F(_)) == IF Failed(R) THEN Ret(R.s, NoNode) ELSE F(R)

current_token_type(S) == Tok(S.cur).type

Top(stk) == IF stk = << >> THEN 0 - 1 ELSE stk[Len(stk)]
Pop(stk) == IF stk = << >> THEN stk ELSE SubSeq(stk, 1, Len(stk) - 1)

\* RECORD_EXPRESSION_START / RECORD_STATEMENT_START: position_stack_node's
\* constructor and destructor
\* a destructor that leaves the scope on the stack
pop_statement_never(R) == R

push_expression(S) == [S EXCEPT !.expression_pos_ = Append(@, S.token_start_)]
pop_expression(R) == [R EXCEPT !.s.expression_pos_ = Pop(@)]
push_statement(S) == [S EXCEPT !.statement_pos_ = Append(@, S.token_start_)]
pop_statement(R) == [R EXCEPT !.s.statement_pos_ = Pop(@)]

\* parser::make_expression / make_statement: the node gets the extent of the
\* innermost scope, position_stack_node::extend
make_expression(S, kind, op, kids) ==
  Node(kind, Top(S.expression_pos_), S.token_start_, op, kids)
make_statement(S, kind, op, kids) ==
  Node(kind, Top(S.statement_pos_), S.token_start_, op, kids)

\* parser::skip_whitespace
RECURSIVE skip_whitespace(_)
skip_whitespace(S) ==
  IF current_token_type(S) = "whitespace"
  THEN skip_whitespace([S EXCEPT !.token_start_ = text_position(S.cur),
                                 !.cur = next_token(S.cur)])
  ELSE IF current_token_type(S) = "line_terminator"
  THEN skip_whitespace([S EXCEPT !.line_break_skipped_ = TRUE,
                                 !.token_start_ = text_position(S.cur),
                                 !.cur = next_token(S.cur)])
  ELSE S

\* a get_token that leaves line_break_skipped_ as it is
get_token_keeps_flag(S) ==
  Ret(skip_whitespace([S EXCEPT !.cur = next_token(S.cur),
                                !.token_start_ = text_position(S.cur)]),
      Tok(S.cur))

\* parser::get_token
get_token(S) ==
  Ret(skip_whitespace([S EXCEPT !.cur = next_token(S.cur),
                                !.line_break_skipped_ = FALSE,
                                !.token_start_ = text_position(S.cur)]),
      Tok(S.cur))

\* parser::accept
accept(S, tt) ==
  IF current_token_type(S) = tt THEN get_token(S) ELSE Ret(S, eof_token)

\* parser::expect
expect(S, tt) ==
  LET A == accept(S, tt) IN
  IF A.v.type = "eof" THEN Ret(throw(S, "Expected"), eof_token) ELSE A

\* a semicolon check that never inserts one
expect_semicolon_no_insertion(S) ==
  LET R == expect(S, "semicolon")
  IN  Ret(note(R.s, "semicolon", S.cur, S.line_break_skipped_, R.s.cur /= S.cur), R.v)

\* parser::expect_semicolon_allow_insertion
expect_semicolon_allow_insertion(S) ==
  LET R == IF ~S.line_break_skipped_ /\ current_token_type(S) /= "rbrace"
                /\ current_token_type(S) /= "eof"
           THEN expect(S, "semicolon")
           ELSE accept(S, "semicolon")
  IN  Ret(note(R.s, "semicolon", S.cur, S.line_break_skipped_, R.s.cur /= S.cur), R.v)

PrefixOperators ==
  {"delete_", "void_", "typeof_", "plusplus", "minusminus", "plus", "minus",
   "tilde", "not_"}

\* a call of one of the parser's member functions, by name
RECURSIVE call(_, _)
RECURSIVE parse_primary_expression(_), parse_postfix_expression(_),
          parse_unary_expression(_), parse_expression1(_, _, _),
          parse_expression1_rhs(_, _, _), parse_assignment_expression(_),
          parse_expression(_), parse_argument_list(_), parse_arguments(_, _),
          parse_member_expression(_), parse_member_suffix(_, _),
          parse_left_hand_side_expression(_), parse_call_suffix(_, _)

\* parser::parse_primary_expression
parse_primary_expression(S) ==
  LET tt == current_token_type(S) IN
  IF tt = "identifier"
  THEN LET G == get_token(S) IN
       Ret(G.s, make_expression(G.s, "identifier", G.v.text, << >>))
  ELSE IF tt = "this_"
  THEN LET G == get_token(S) IN
       Ret(G.s, make_expression(G.s, "identifier", "this", << >>))
  ELSE IF tt = "lparen"
  THEN Then(call("parse_expression", <<get_token(S).s>>),
            LAMBDA E : Then(expect(E.s, "rparen"), LAMBDA X : Ret(X.s, E.v)))
  ELSE IF is_literal(tt)
  THEN LET G == get_token(S) IN
       Ret(G.s, make_expression(G.s, "literal", G.v.text, << >>))
  ELSE Ret(throw(S, "Unhandled token"), NoNode)

\* a postfix parser that ignores line breaks before ++ and --
parse_postfix_expression_any_line(S) ==
  Then(call("parse_left_hand_side_expression", <<S>>),
       LAMBDA L :
         IF current_token_type(L.s) \in {"plusplus", "minusminus"}
         THEN LET G == get_token(L.s) IN
              Ret(note(G.s, "postfix", L.s.cur, L.s.line_break_skipped_, TRUE),
                  make_expression(G.s, "postfix", current_token_type(L.s), <<L.v>>))
         ELSE Ret(note(L.s, "postfix", L.s.cur, L.s.line_break_skipped_, FALSE), L.v))

\* parser::parse_postfix_expression
parse_postfix_expression(S) ==
  Then(call("parse_left_hand_side_expression", <<S>>),
       LAMBDA L :
         IF L.s.line_break_skipped_
         THEN Ret(note(L.s, "postfix", L.s.cur, L.s.line_break_skipped_, FALSE), L.v)
         ELSE IF current_token_type(L.s) \in {"plusplus", "minusminus"}
         THEN LET G == get_token(L.s) IN
              Ret(note(G.s, "postfix", L.s.cur, L.s.line_break_skipped_, TRUE),
                  make_expression(G.s, "postfix", current_token_type(L.s), <<L.v>>))
         ELSE Ret(note(L.s, "postfix", L.s.cur, L.s.line_break_skipped_, FALSE), L.v))

\* parser::parse_unary_expression
parse_unary_expression(S) ==
  LET t == current_token_type(S) IN
  IF t \in PrefixOperators
  THEN Then(call("parse_unary_expression", <<accept(S, t).s>>),
            LAMBDA U : Ret(U.s, make_expression(U.s, "prefix", t, <<U.v>>)))
  ELSE call("parse_postfix_expression", <<S>>)

\* parser::parse_expression1, the outer loop
parse_expression1(S, lhs, outer_precedence) ==
  LET op == current_token_type(S)
      precedence == operator_precedence(op)
  IN
  IF precedence > outer_precedence THEN Ret(S, lhs)
  ELSE IF op = "question"
  THEN Then(call("parse_assignment_expression", <<get_token(S).s>>), LAMBDA L :
       Then(expect(L.s, "colon"), LAMBDA X :
       Then(call("parse_assignment_expression", <<X.s>>), LAMBDA R :
         call("parse_expression1", <<turn(R.s, "outer", S), make_expression(R.s, "conditional", "", <<lhs, L.v, R.v>>), outer_precedence>>))))
  ELSE Then(call("parse_unary_expression", <<get_token(S).s>>), LAMBDA U :
       Then(call("parse_expression1_rhs", <<U.s, U.v, precedence>>), LAMBDA I :
         call("parse_expression1", <<turn(I.s, "outer", S), make_expression(I.s, "binary", op, <<lhs, I.v>>), outer_precedence>>)))

\* an inner loop that never takes a look-ahead operator into the right operand
parse_expression1_rhs_flat(S, rhs, precedence) == Ret(S, rhs)

\* parser::parse_expression1, the inner loop over the look-ahead
parse_expression1_rhs(S, rhs, precedence) ==
  LET look_ahead == current_token_type(S)
      look_ahead_precedence == operator_precedence(look_ahead)
  IN
  IF look_ahead_precedence > precedence
       \/ (look_ahead_precedence = precedence /\ ~is_right_to_left(look_ahead))
  THEN Ret(S, rhs)
  ELSE Then(call("parse_expression1", <<S, rhs, look_ahead_precedence>>), LAMBDA R :
         call("parse_expression1_rhs", <<turn(R.s, "inner", S), R.v, precedence>>))

\* parser::parse_assignment_expression
parse_assignment_expression(S) ==
  Then(call("parse_unary_expression", <<S>>), LAMBDA U :
    call("parse_expression1", <<U.s, U.v, assignment_precedence>>))

\* parser::parse_expression
parse_expression(S) ==
  pop_expression(
    Then(call("parse_assignment_expression", <<push_expression(S)>>), LAMBDA A :
      call("parse_expression1", <<A.s, A.v, comma_precedence>>)))

\* parser::parse_argument_list: the do-while over the arguments
parse_arguments(S, l) ==
  Then(call("parse_assignment_expression", <<S>>), LAMBDA A :
    LET C == accept(A.s, "comma") IN
    IF C.v.type /= "eof" THEN call("parse_arguments", <<C.s, Append(l, A.v)>>)
    ELSE Then(expect(A.s, "rparen"), LAMBDA X : Ret(X.s, Append(l, A.v))))

\* parser::parse_argument_list
parse_argument_list(S) ==
  Then(expect(S, "lparen"), LAMBDA P :
    LET C == accept(P.s, "rparen") IN
    IF C.v.type /= "eof" THEN Ret(C.s, << >>) ELSE call("parse_arguments", <<P.s, << >>>>))

\* the `.identifier` suffix shared by member and call expressions
parse_dot(S, me) ==
  Then(expect(S, "identifier"), LAMBDA I :
    Ret(I.s, make_expression(I.s, "binary", "dot",
               <<me, make_expression(I.s, "literal", I.v.text, << >>)>>)))

\* parser::parse_member_expression: the loop over [ ] and . suffixes
parse_member_suffix(S, me) ==
  IF current_token_type(S) = "lbracket"
  THEN Then(call("parse_expression", <<get_token(S).s>>), LAMBDA E :
       Then(expect(E.s, "rbracket"), LAMBDA X :
         call("parse_member_suffix", <<X.s, make_expression(X.s, "binary", "lbracket", <<me, E.v>>)>>)))
  ELSE IF current_token_type(S) = "dot"
  THEN Then(parse_dot(get_token(S).s, me), LAMBDA D : call("parse_member_suffix", <<D.s, D.v>>))
  ELSE Ret(S, me)

\* parser::parse_member_expression
parse_member_expression(S) ==
  IF current_token_type(S) = "new_"
  THEN Then(call("parse_member_expression", <<get_token(S).s>>), LAMBDA E :
         IF current_token_type(E.s) = "lparen"
         THEN Then(call("parse_argument_list", <<E.s>>), LAMBDA A :
                call("parse_member_suffix", <<A.s, make_expression(A.s, "prefix", "new_",
                    <<make_expression(A.s, "call", "", <<E.v>> \o A.v)>>)>>))
         ELSE call("parse_member_suffix", <<E.s, make_expression(E.s, "prefix", "new_", <<E.v>>)>>))
  ELSE Then(call("parse_primary_expression", <<S>>), LAMBDA M : call("parse_member_suffix", <<M.s, M.v>>))

\* parser::parse_left_hand_side_expression: the loop over call, [ ] and .
parse_call_suffix(S, m) ==
  IF current_token_type(S) = "lparen"
  THEN Then(call("parse_argument_list", <<S>>), LAMBDA A :
         call("parse_call_suffix", <<A.s, make_expression(A.s, "call", "", <<m>> \o A.v)>>))
  ELSE IF current_token_type(S) = "lbracket"
  THEN Then(call("parse_expression", <<get_token(S).s>>), LAMBDA E :
       Then(expect(E.s, "rbracket"), LAMBDA X :
         call("parse_call_suffix", <<X.s, make_expression(X.s, "binary", "lbracket", <<m, E.v>>)>>)))
  ELSE IF current_token_type(S) = "dot"
  THEN Then(parse_dot(get_token(S).s, m), LAMBDA D : call("parse_call_suffix", <<D.s, D.v>>))
  ELSE Ret(S, m)

\* parser::parse_left_hand_side_expression
parse_left_hand_side_expression(S) ==
  Then(call("parse_member_expression", <<S>>), LAMBDA M : call("parse_call_suffix", <<M.s, M.v>>))

\* ------------------------------------------------------------------------
\* Statements
\* ------------------------------------------------------------------------
RECURSIVE parse_block(_), parse_block_statements(_, _),
          parse_variable_declaration_list(_, _), parse_statement(_),
          parse_statement_body(_), parse_for(_), parse_for_rest(_, _),
          parse_function(_), parse_statement_or_function_declaration(_)

\* parser::parse_block
parse_block(S) ==
  Then(expect(S, "lbrace"), LAMBDA B : call("parse_block_statements", <<B.s, << >>>>))

\* parser::parse_block: the loop up to the closing brace
parse_block_statements(S, l) ==
  LET C == accept(S, "rbrace") IN
  IF C.v.type /= "eof"
  THEN Ret(C.s, make_statement(C.s, "block_statement", "", l))
  ELSE Then(call("parse_statement_or_function_declaration", <<S>>), LAMBDA St :
         call("parse_block_statements", <<turn(St.s, "block", S), Append(l, St.v)>>))

\* parser::parse_variable_declaration_list: the do-while, l the declarations
\* so far
parse_variable_declaration_list(S, l) ==
  Then(expect(S, "identifier"), LAMBDA I :
    LET E == accept(I.s, "equal") IN
    Then(IF E.v.type /= "eof"
         THEN pop_expression(call("parse_assignment_expression", <<push_expression(E.s)>>))
         ELSE Ret(I.s, NoNode),
         LAMBDA init :
           LET d == Node("declaration", 0, 0, I.v.text, <<init.v>>)
               C == accept(init.s, "comma")
           IN  IF C.v.type /= "eof"
               THEN call("parse_variable_declaration_list", <<C.s, Append(l, d)>>)
               ELSE Ret(init.s, Append(l, d))))

\* a return statement that ignores line breaks before its expression
parse_return_any_line(S) ==
  LET with_e == current_token_type(S) /= "semicolon" IN
  Then(IF with_e THEN call("parse_expression", <<S>>) ELSE Ret(S, NoNode), LAMBDA E :
  Then(expect_semicolon_allow_insertion(note(E.s, "return", S.cur, S.line_break_skipped_, with_e)),
       LAMBDA X : Ret(X.s, make_statement(X.s, "return_statement", "", <<E.v>>))))

\* parser::parse_statement, the return statement after its keyword
parse_return(S) ==
  LET with_e == ~S.line_break_skipped_ /\ current_token_type(S) /= "semicolon" IN
  Then(IF with_e THEN call("parse_expression", <<S>>) ELSE Ret(S, NoNode), LAMBDA E :
  Then(expect_semicolon_allow_insertion(note(E.s, "return", S.cur, S.line_break_skipped_, with_e)),
       LAMBDA X : Ret(X.s, make_statement(X.s, "return_statement", "", <<E.v>>))))

\* parser::parse_statement, the for statement from its condition on
parse_for_rest(S, init) ==
  LET A == accept(S, "semicolon") IN
  Then(IF A.v.type /= "eof" THEN Ret(A.s, NoNode)
       ELSE Then(call("parse_expression", <<S>>), LAMBDA C :
            Then(expect(C.s, "semicolon"), LAMBDA X : Ret(X.s, C.v))),
       LAMBDA cond :
  LET R == accept(cond.s, "rparen") IN
  Then(IF R.v.type /= "eof" THEN Ret(R.s, NoNode)
       ELSE Then(call("parse_expression", <<cond.s>>), LAMBDA I :
            Then(expect(I.s, "rparen"), LAMBDA X : Ret(X.s, I.v))),
       LAMBDA iter :
  Then(call("parse_statement", <<iter.s>>), LAMBDA B :
    Ret(B.s, make_statement(B.s, "for_statement", "", <<init, cond.v, iter.v, B.v>>)))))

\* parser::parse_statement, the for and for-in statements after `for`
parse_for(S) ==
  Then(expect(S, "lparen"), LAMBDA P :
    LET A == accept(P.s, "semicolon")
        V == accept(P.s, "var_")
    IN
    IF A.v.type /= "eof" THEN call("parse_for_rest", <<A.s, NoNode>>)
    ELSE
    Then(IF V.v.type /= "eof"
         THEN Then(call("parse_variable_declaration_list", <<V.s, << >>>>), LAMBDA DL :
                Ret(DL.s, make_statement(DL.s, "variable_statement", "", DL.v)))
         ELSE Then(call("parse_expression", <<P.s>>), LAMBDA E :
                Ret(E.s, make_statement(E.s, "expression_statement", "", <<E.v>>))),
         LAMBDA init :
    LET In == accept(init.s, "in_") IN
    IF In.v.type /= "eof"
    THEN IF init.v[1] = "variable_statement" /\ Len(init.v[5]) /= 1
         THEN Ret(throw(In.s, "Unhandled token"), NoNode)
         ELSE Then(call("parse_expression", <<In.s>>), LAMBDA E :
              Then(expect(E.s, "rparen"), LAMBDA Q :
              Then(call("parse_statement", <<Q.s>>), LAMBDA B :
                Ret(B.s, make_statement(B.s, "for_in_statement", "", <<init.v, E.v, B.v>>)))))
    ELSE Then(expect(init.s, "semicolon"), LAMBDA X : call("parse_for_rest", <<X.s, init.v>>))))

\* parser::parse_statement between RECORD_STATEMENT_START and the return
parse_statement_body(S) ==
  LET tt == current_token_type(S)
      G == get_token(S)
  IN
  IF tt = "lbrace" THEN call("parse_block", <<S>>)
  ELSE IF tt = "var_"
  THEN Then(call("parse_variable_declaration_list", <<G.s, << >>>>), LAMBDA DL :
       Then(expect_semicolon_allow_insertion(DL.s), LAMBDA X :
         Ret(X.s, make_statement(X.s, "variable_statement", "", DL.v))))
  ELSE IF tt = "semicolon"
  THEN Ret(G.s, make_statement(G.s, "empty_statement", "", << >>))
  ELSE IF tt = "if_"
  THEN Then(expect(G.s, "lparen"), LAMBDA P :
       Then(call("parse_expression", <<P.s>>), LAMBDA C :
       Then(expect(C.s, "rparen"), LAMBDA Q :
       Then(call("parse_statement", <<Q.s>>), LAMBDA I :
         LET A == accept(I.s, "semicolon")
             E == accept(A.s, "else_")
         IN  IF E.v.type /= "eof"
             THEN Then(call("parse_statement", <<E.s>>), LAMBDA J :
                    Ret(J.s, make_statement(J.s, "if_statement", "", <<C.v, I.v, J.v>>)))
             ELSE Ret(A.s, make_statement(A.s, "if_statement", "", <<C.v, I.v, NoNode>>))))))
  ELSE IF tt = "while_"
  THEN Then(expect(G.s, "lparen"), LAMBDA P :
       Then(call("parse_expression", <<P.s>>), LAMBDA C :
       Then(expect(C.s, "rparen"), LAMBDA Q :
       Then(call("parse_statement", <<Q.s>>), LAMBDA B :
         Ret(B.s, make_statement(B.s, "while_statement", "", <<C.v, B.v>>))))))
  ELSE IF tt = "for_" THEN call("parse_for", <<G.s>>)
  ELSE IF tt = "continue_"
  THEN Then(expect_semicolon_allow_insertion(G.s), LAMBDA X :
         Ret(X.s, make_statement(X.s, "continue_statement", "", << >>)))
  ELSE IF tt = "break_"
  THEN Then(expect_semicolon_allow_insertion(G.s), LAMBDA X :
         Ret(X.s, make_statement(X.s, "break_statement", "", << >>)))
  ELSE IF tt = "return_" THEN parse_return(G.s)
  ELSE IF tt = "with_"
  THEN Then(expect(G.s, "lparen"), LAMBDA P :
       Then(call("parse_expression", <<P.s>>), LAMBDA E :
       Then(expect(E.s, "rparen"), LAMBDA Q :
       Then(call("parse_statement", <<Q.s>>), LAMBDA B :
         Ret(B.s, make_statement(B.s, "with_statement", "", <<E.v, B.v>>))))))
  ELSE Then(call("parse_expression", <<S>>), LAMBDA E :
       Then(expect_semicolon_allow_insertion(E.s), LAMBDA X :
         Ret(X.s, make_statement(X.s, "expression_statement", "", <<E.v>>))))

\* parser::parse_statement
parse_statement(S) == pop_statement(call("parse_statement_body", <<push_statement(S)>>))

\* parser::parse_function: the parameter names after the first
RECURSIVE parse_parameters(_, _)
parse_parameters(S, params) ==
  Then(expect(S, "identifier"), LAMBDA I :
    LET p == Node("parameter", 0, 0, I.v.text, << >>)
        C == accept(I.s, "comma")
    IN  IF C.v.type /= "eof" THEN call("parse_parameters", <<C.s, Append(params, p)>>)
        ELSE Then(expect(I.s, "rparen"), LAMBDA X : Ret(X.s, Append(params, p))))

\* parser::parse_function; the node's operator field holds body_start
parse_function(S) ==
  pop_statement(
    Then(expect(push_statement(S), "function_"), LAMBDA F :
    Then(expect(F.s, "identifier"), LAMBDA I :
      LET body_start == text_position(I.s.cur) - 1 IN
      Then(expect(I.s, "lparen"), LAMBDA P :
        LET R == accept(P.s, "rparen") IN
        Then(IF R.v.type /= "eof" THEN Ret(R.s, << >>)
             ELSE call("parse_parameters", <<P.s, << >>>>), LAMBDA params :
        Then(call("parse_block", <<params.s>>), LAMBDA block :
          Ret(block.s,
              make_statement(block.s, "function_definition", I.v.text,
                <<Node("body", body_start, block.v[3], "", << >>),
                  Node("parameters", 0, 0, "", params.v), block.v>>))))))))

\* a statement parser that takes a `}` for an empty statement and leaves it
\* where it is
parse_statement_or_function_declaration_lenient(S) ==
  LET W == skip_whitespace(S) IN
  IF current_token_type(W) = "rbrace"
  THEN Ret(W, Node("empty_statement", W.token_start_, W.token_start_, "", << >>))
  ELSE IF current_token_type(W) = "function_" THEN call("parse_function", <<W>>)
  ELSE call("parse_statement", <<W>>)

\* parser::parse_statement_or_function_declaration
parse_statement_or_function_declaration(S) ==
  LET W == skip_whitespace(S) IN
  IF current_token_type(W) = "function_" THEN call("parse_function", <<W>>)
  ELSE call("parse_statement", <<W>>)

\* the member function named f applied to the arguments a
call(f, a) ==
  CASE f = "parse_primary_expression" -> parse_primary_expression(a[1])
    [] f = "parse_postfix_expression" -> parse_postfix_expression(a[1])
    [] f = "parse_unary_expression" -> parse_unary_expression(a[1])
    [] f = "parse_expression1" -> parse_expression1(a[1], a[2], a[3])
    [] f = "parse_expression1_rhs" -> parse_expression1_rhs(a[1], a[2], a[3])
    [] f = "parse_assignment_expression" -> parse_assignment_expression(a[1])
    [] f = "parse_expression" -> parse_expression(a[1])
    [] f = "parse_argument_list" -> parse_argument_list(a[1])
    [] f = "parse_arguments" -> parse_arguments(a[1], a[2])
    [] f = "parse_member_expression" -> parse_member_expression(a[1])
    [] f = "parse_member_suffix" -> parse_member_suffix(a[1], a[2])
    [] f = "parse_left_hand_side_expression" -> parse_left_hand_side_expression(a[1])
    [] f = "parse_call_suffix" -> parse_call_suffix(a[1], a[2])
    [] f = "parse_block" -> parse_block(a[1])
    [] f = "parse_block_statements" -> parse_block_statements(a[1], a[2])
    [] f = "parse_variable_declaration_list" -> parse_variable_declaration_list(a[1], a[2])
    [] f = "parse_statement" -> parse_statement(a[1])
    [] f = "parse_statement_body" -> parse_statement_body(a[1])
    [] f = "parse_for" -> parse_for(a[1])
    [] f = "parse_for_rest" -> parse_for_rest(a[1], a[2])
    [] f = "parse_function" -> parse_function(a[1])
    [] f = "parse_statement_or_function_declaration" -> parse_statement_or_function_declaration(a[1])
    [] f = "parse_parameters" -> parse_parameters(a[1], a[2])

\* ------------------------------------------------------------------------
\* Initial state
\* ------------------------------------------------------------------------
NoGc == [phase |-> "idle", heap |-> 0, ptr_keep_count |-> 0, i |-> 0,
         pending_fixpus |-> << >>]
NoHeap == [storage |-> EmptyStorage, next_free |-> 0, pointers |-> << >>]
NoReq == [active |-> FALSE, g |-> 0, p |-> 0, T |-> 0, num_bytes |-> 0,
          data |-> 0, src |-> 0, v |-> NoValue]
NoSnap == [valid |-> FALSE, g |-> 0, storage |-> EmptyStorage, next_free |-> 0,
           pointers |-> << >>, hp |-> [p \in HandleIds |-> DeadHandle]]
NoResult == [op |-> "none", status |-> "none", collected |-> FALSE, num_bytes |-> 0,
             got |-> NoValue, want |-> NoValue, eq |-> "none"]

ParserIdle ==
  /\ tokens = << >>
  /\ cur = 1
  /\ token_start_ = 0
  /\ line_break_skipped_ = FALSE
  /\ expression_pos_ = << >>
  /\ statement_pos_ = << >>
  /\ log = << >>
  /\ out = << >>
  /\ ast = NoNode
  /\ pstate = "off"

\* no object of the interpreter exists
NoObjects == [properties_ |-> << >>, value_ |-> << >>, graph |-> << >>, roots |-> << >>,
              next_root |-> 1, live_objects |-> {}, stack |-> << >>, phase |-> "off"]

NewHeaps(H) ==
  /\ heaps = H
  /\ storage = [g \in HeapIds |-> EmptyStorage]
  /\ next_free = [g \in HeapIds |-> 0]
  /\ pointers = [g \in HeapIds |-> << >>]
  /\ hp = [p \in HandleIds |-> DeadHandle]
  /\ gc_state = NoGc
  /\ new_heap = NoHeap
  /\ req = NoReq
  /\ result = NoResult
  /\ serial = 0
  /\ destroyed = [o \in 1 .. MaxAllocs |-> 0]
  /\ snap = NoSnap
  /\ constructing = << >>

\* a get() that constructs, and pushes to types_, at every call
registration_get_every_call(reg, T) == Append(reg, T)

\* gc_type_info_registration<T>::get() of one type: the function-local
\* static is constructed, and pushed to types_, by the first call only
registration_get(reg, T) ==
  IF \E i \in 1 .. Len(reg) : reg[i] = T THEN reg ELSE Append(reg, T)

\* gc_type_info::get_index: std::find
get_index(reg, T) ==
  (CHOOSE i \in 1 .. Len(reg) : reg[i] = T /\ \A j \in 1 .. i - 1 : reg[j] /= T) - 1

TypeNames == {types_[i].name_ : i \in 1 .. Len(types_)}

\* the heaps H of a program whose types have all been registered, in the
\* order of types_
HeapInit(H) ==
  /\ NewHeaps(H)
  /\ objects = NoObjects
  /\ registered = [i \in 1 .. Len(types_) |-> types_[i].name_]

\* one heap has been constructed; the mutator has no handles yet
Init == HeapInit({1}) /\ ParserIdle

\* ------------------------------------------------------------------------
\* Tracked-handle operations of the mutator
\* ------------------------------------------------------------------------
MutatorStep ==
  /\ result' = NoResult
  /\ snap' = NoSnap
  /\ UNCHANGED <<heaps, storage, next_free, gc_state, new_heap, req, serial, destroyed>>
  /\ UNCHANGED <<parserVars, typeVars>>

\* gc_heap_ptr_untyped(): a null handle, not registered anywhere
HandleDefault(p) ==
  /\ Idle /\ p = FreeHandle
  /\ hp' = [hp EXCEPT ![p] = NullHandle]
  /\ UNCHANGED pointers
  /\ MutatorStep

\* gc_heap_ptr_untyped(const gc_heap_ptr_untyped&)
HandleCopy(p, q) ==
  /\ Idle /\ p = FreeHandle /\ hp[q].live
  /\ hp' = [hp EXCEPT ![p] = hp[q]]
  /\ pointers' = IF hp[q].heap_ /= 0 THEN attach(pointers, hp[q].heap_, p) ELSE pointers
  /\ MutatorStep

\* ~gc_heap_ptr_untyped()
HandleDestroy(p) ==
  /\ Idle /\ hp[p].live
  /\ pointers' = IF hp[p].heap_ /= 0 THEN detach(pointers, hp[p].heap_, p) ELSE pointers
  /\ hp' = [hp EXCEPT ![p] = DeadHandle]
  /\ MutatorStep

\* an assignment that attaches without detaching first
assign_pointers_no_detach(ps, h, p, q) ==
  IF p = q THEN ps
  ELSE IF h[q].heap_ /= 0 THEN attach(ps, h[q].heap_, p) ELSE ps

\* the pointer sets after operator=(p, q)
assign_pointers(ps, h, p, q) ==
  IF p = q THEN ps
  ELSE LET d == IF h[p].heap_ /= 0 THEN detach(ps, h[p].heap_, p) ELSE ps
       IN IF h[q].heap_ /= 0 THEN attach(d, h[q].heap_, p) ELSE d

\* gc_heap_ptr_untyped::operator=
HandleAssign(p, q) ==
  /\ Idle /\ hp[p].live /\ hp[q].live
  /\ pointers' = assign_pointers(pointers, hp, p, q)
  /\ hp' = [hp EXCEPT ![p] = hp[q]]
  /\ MutatorStep

\* ------------------------------------------------------------------------
\* gc_heap::allocate_and_construct
\* ------------------------------------------------------------------------
DataVals == {1, 2}
StringBytes == {8, 9}
\* undefined, null, a boolean, an ordinary number and a NaN with a payload
PrimValues ==
  { [type |-> "undefined", x |-> 0], [type |-> "null", x |-> 0],
    [type |-> "boolean", x |-> 1], [type |-> "number", x |-> 1],
    [type |-> "number", x |-> nan_bits + 2 * payload_range] }

\* the live handles registered with heap g
LiveIn(g) == {q \in HandleIds : hp[q].live /\ hp[q].heap_ = g}

\* the kind of value that holds a handle to an object of type t
kind_of(t) ==
  CASE t = T_string -> "string"
    [] t = T_func -> "native_function"
    [] OTHER -> "object"

TypeAt(g, q) == storage[g][hp[q].pos_ - 1].type
OidAt(st, pos) == st[pos - 1].oid

\* the calls the mutator can make on heap g, the result going to handle p
BaseReq(g, p) == [NoReq EXCEPT !.active = TRUE, !.g = g, !.p = p, !.num_bytes = slot_size]

StringRequests(g, p, D) ==
  { [BaseReq(g, p) EXCEPT !.T = T_string, !.num_bytes = b, !.data = d] :
      b \in StringBytes, d \in D }

FuncRequests(g, p) == { [BaseReq(g, p) EXCEPT !.T = T_func] }

NodeRequests(g, p) ==
  { [BaseReq(g, p) EXCEPT !.T = T_node, !.src = q] : q \in {0} \cup LiveIn(g) }

PrimBoxRequests(g, p) ==
  { [BaseReq(g, p) EXCEPT !.T = T_box, !.v = v] : v \in PrimValues }

RefBoxRequests(g, p) ==
  { [BaseReq(g, p) EXCEPT !.T = T_box, !.src = q,
                          !.v = [type |-> kind_of(TypeAt(g, q)), x |-> 0]] : q \in LiveIn(g) }

\* the calls of the collector's specification: graphs of strings, nodes and
\* boxes that hold handles
HeapRequests(g, p) ==
  StringRequests(g, p, {1}) \cup NodeRequests(g, p) \cup RefBoxRequests(g, p)

\* gc_heap_ptr_untracked(const gc_heap_ptr<T>&): the slot index of handle q
untracked_from(h, st, q) ==
  [EmptySlot EXCEPT !.word = h[q].pos_,
                    !.src = [type |-> "untracked", x |-> OidAt(st, h[q].pos_)]]

\* gc_type_info_registration<T>::construct: the payload slot i (from 0) of a
\* new object, built from the call's arguments as the handles are now
construct(r, h, st, i) ==
  CASE r.T = T_node ->
         IF r.src = 0 THEN EmptySlot
         ELSE untracked_from(h, st, r.src)
    [] r.T = T_box ->
         IF r.src = 0
         THEN [EmptySlot EXCEPT !.word = to_representation(r.v), !.src = r.v]
         ELSE [EmptySlot EXCEPT
                 !.word = to_representation([r.v EXCEPT !.x = h[r.src].pos_]),
                 !.src = [r.v EXCEPT !.x = OidAt(st, h[r.src].pos_)]]
    [] r.T = T_string -> [EmptySlot EXCEPT !.word = r.data]
    [] OTHER -> EmptySlot

\* allocate_and_construct once the request fits: reserve, construct at
\* pos+1, then set the header's type
allocate_and_construct(st, nf, r, h, oid) ==
  LET reserved == allocate(st, nf, r.num_bytes, oid)
      n == reserved[nf].size
      built == [i \in Positions |->
                  IF i > nf /\ i < nf + n THEN construct(r, h, st, i - nf - 1)
                  ELSE reserved[i]]
  IN [built EXCEPT ![nf].type = r.T]

\* the untracked handle embedded in the node that p names is set from handle q
SetField(p, q) ==
  /\ Idle /\ hp[p].live /\ hp[q].live
  /\ hp[p].heap_ /= 0 /\ hp[q].heap_ = hp[p].heap_
  /\ TypeAt(hp[p].heap_, p) = T_node
  /\ storage' = [storage EXCEPT ![hp[p].heap_][hp[p].pos_] =
                   untracked_from(hp, storage[hp[p].heap_], q)]
  /\ result' = NoResult
  /\ snap' = NoSnap
  /\ UNCHANGED <<heaps, next_free, pointers, hp, gc_state, new_heap, req, serial, destroyed>>
  /\ UNCHANGED <<parserVars, typeVars>>

\* the snapshot of heap g taken when a collection starts
TakeSnap(g) == [valid |-> TRUE, g |-> g, storage |-> storage[g],
                next_free |-> next_free[g], pointers |-> pointers[g], hp |-> hp]

\* garbage_collect, step 1: a fresh heap of the same capacity, the current
\* number of tracked handles becomes ptr_keep_count
gc_setup(g) ==
  [phase |-> IF Len(pointers[g]) = 0 THEN "fixups" ELSE "roots",
   heap |-> g, ptr_keep_count |-> Len(pointers[g]), i |-> 0,
   pending_fixpus |-> << >>]

\* the call fits: the object is built and the handle p registered
AllocFits(g, p, R) ==
  \E r \in R :
    /\ Idle /\ g \in heaps /\ p = FreeHandle /\ serial < MaxAllocs
    /\ fits(next_free[g], r.num_bytes)
    /\ storage' = [storage EXCEPT ![g] =
                     allocate_and_construct(storage[g], next_free[g], r, hp, serial + 1)]
    /\ next_free' = [next_free EXCEPT ![g] = @ + num_slots_for(r.num_bytes)]
    /\ hp' = [hp EXCEPT ![p] = [live |-> TRUE, heap_ |-> g, pos_ |-> next_free[g] + 1]]
    /\ pointers' = attach(pointers, g, p)
    /\ serial' = serial + 1
    /\ result' = [NoResult EXCEPT !.op = "allocate", !.status = "ok",
                                  !.num_bytes = r.num_bytes]
    /\ snap' = NoSnap
    /\ UNCHANGED <<heaps, gc_state, new_heap, req, destroyed>>
    /\ UNCHANGED <<parserVars, typeVars>>

\* the call does not fit: a collection is started on its behalf
AllocCollects(g, p, R) ==
  \E r \in R :
    /\ Idle /\ g \in heaps /\ p = FreeHandle /\ serial < MaxAllocs
    /\ ~fits(next_free[g], r.num_bytes)
    /\ req' = r
    /\ gc_state' = gc_setup(g)
    /\ new_heap' = NoHeap
    /\ snap' = TakeSnap(g)
    /\ result' = [NoResult EXCEPT !.op = "allocate", !.status = "collecting",
                                  !.num_bytes = r.num_bytes]
    /\ UNCHANGED <<heaps, storage, next_free, pointers, hp, serial, destroyed>>
    /\ UNCHANGED <<parserVars, typeVars>>

\* gc_heap::garbage_collect called by the mutator
GcStart(g) ==
  /\ Idle /\ g \in heaps
  /\ req' = NoReq
  /\ gc_state' = gc_setup(g)
  /\ new_heap' = NoHeap
  /\ snap' = TakeSnap(g)
  /\ result' = [NoResult EXCEPT !.op = "garbage_collect", !.status = "collecting"]
  /\ UNCHANGED <<heaps, storage, next_free, pointers, hp, serial, destroyed>>
  /\ UNCHANGED <<parserVars, typeVars>>

\* the collector's view of the two heaps
GcView == [old |-> storage[gc_state.heap], nst |-> new_heap.storage,
           nnf |-> new_heap.next_free, pend |-> gc_state.pending_fixpus, ret |-> 0]

\* garbage_collect, step 2: gc_move of the next root handle; the handle gets
\* its new position and is registered with the new heap
GcMoveRoot ==
  /\ gc_state.phase = "roots"
  /\ LET g == gc_state.heap
         p == pointers[g][gc_state.i + 1]
         G == gc_move(GcView, hp[p].pos_)
     IN /\ storage' = [storage EXCEPT ![g] = G.old]
        /\ new_heap' = [storage |-> G.nst, next_free |-> G.nnf,
                        pointers |-> insert(new_heap.pointers, p)]
        /\ hp' = [hp EXCEPT ![p].pos_ = G.ret]
        /\ gc_state' = [gc_state EXCEPT
                          !.i = @ + 1,
                          !.pending_fixpus = G.pend,
                          !.phase = IF gc_state.i + 1 = gc_state.ptr_keep_count
                                    THEN "fixups" ELSE "roots"]
  /\ UNCHANGED <<heaps, next_free, pointers, req, result, serial, destroyed, snap>>
  /\ UNCHANGED <<parserVars, typeVars>>

\* garbage_collect, step 3: the next queued field is translated: the object
\* it names is moved unless it was moved before
GcFixup ==
  /\ gc_state.phase = "fixups"
  /\ gc_state.pending_fixpus /= << >>
  /\ LET g == gc_state.heap
         k == Head(gc_state.pending_fixpus)
         G == gc_move([GcView EXCEPT !.pend = Tail(gc_state.pending_fixpus)],
                      field_pos(new_heap.storage, k))
     IN /\ storage' = [storage EXCEPT ![g] = G.old]
        /\ new_heap' = [new_heap EXCEPT
                          !.storage = [G.nst EXCEPT ![k].word = field_with_pos(G.nst, k, G.ret)],
                          !.next_free = G.nnf]
        /\ gc_state' = [gc_state EXCEPT !.pending_fixpus = G.pend]
  /\ UNCHANGED <<heaps, next_free, pointers, hp, req, result, serial, destroyed, snap>>
  /\ UNCHANGED <<parserVars, typeVars>>

\* garbage_collect, step 4: the heap takes over the new heap's storage,
\* next_free and pointer set; the destructors of the records still active in
\* the old storage run and the old storage is released. A waiting
\* allocate_and_construct is then retried and fails if it still does not fit.
GcCommit ==
  /\ gc_state.phase = "fixups"
  /\ gc_state.pending_fixpus = << >>
  /\ LET g == gc_state.heap
         nf == new_heap.next_free
         retry == req.active /\ fits(nf, req.num_bytes)
     IN /\ destroyed' = run_destructors(destroyed, storage[g], next_free[g])
        /\ storage' = [storage EXCEPT ![g] =
                         IF retry
                         THEN allocate_and_construct(new_heap.storage, nf, req, hp, serial + 1)
                         ELSE new_heap.storage]
        /\ next_free' = [next_free EXCEPT ![g] =
                           IF retry THEN nf + num_slots_for(req.num_bytes) ELSE nf]
        /\ pointers' = [pointers EXCEPT ![g] =
                          IF retry THEN insert(new_heap.pointers, req.p)
                          ELSE new_heap.pointers]
        /\ hp' = IF retry
                 THEN [hp EXCEPT ![req.p] = [live |-> TRUE, heap_ |-> g, pos_ |-> nf + 1]]
                 ELSE hp
        /\ serial' = IF retry THEN serial + 1 ELSE serial
        /\ result' = [result EXCEPT
                        !.collected = TRUE,
                        !.status = IF req.active /\ ~retry THEN "OUT_OF_MEMORY" ELSE "ok"]
  /\ gc_state' = NoGc
  /\ new_heap' = NoHeap
  /\ req' = NoReq
  /\ UNCHANGED <<heaps, snap>>
  /\ UNCHANGED <<parserVars, typeVars>>

\* ~gc_heap: the destructors of all active records run; no tracked handle
\* may still be registered
HeapDestroy(g) ==
  /\ Idle /\ g \in heaps /\ pointers[g] = << >>
  /\ destroyed' = run_destructors(destroyed, storage[g], next_free[g])
  /\ heaps' = heaps \ {g}
  /\ storage' = [storage EXCEPT ![g] = EmptyStorage]
  /\ next_free' = [next_free EXCEPT ![g] = 0]
  /\ result' = [NoResult EXCEPT !.op = "teardown", !.status = "ok"]
  /\ snap' = NoSnap
  /\ UNCHANGED <<pointers, hp, gc_state, new_heap, req, serial>>
  /\ UNCHANGED <<parserVars, typeVars>>

Next ==
  \/ \E p, q \in HandleIds : HandleCopy(p, q)
  \/ \E p \in HandleIds : HandleDestroy(p)
  \/ \E p, q \in HandleIds : HandleAssign(p, q)
  \/ \E p, q \in HandleIds : SetField(p, q)
  \/ \E p \in HandleIds : AllocFits(1, p, HeapRequests(1, p))
  \/ \E p \in HandleIds : AllocCollects(1, p, HeapRequests(1, p))
  \/ GcStart(1)
  \/ GcMoveRoot
  \/ GcFixup
  \/ GcCommit
  \/ HeapDestroy(1)

Spec == Init /\ [][Next]_vars

\* ------------------------------------------------------------------------
\* Tracked handles over two heaps
\* ------------------------------------------------------------------------
\* two heaps have been constructed
InitHandles == HeapInit(HeapIds) /\ ParserIdle

NextHandles ==
  \/ \E p \in HandleIds : HandleDefault(p)
  \/ \E p, q \in HandleIds : HandleCopy(p, q)
  \/ \E p \in HandleIds : HandleDestroy(p)
  \/ \E p, q \in HandleIds : HandleAssign(p, q)
  \/ \E g \in HeapIds, p \in HandleIds : AllocFits(g, p, StringRequests(g, p, {1}))

SpecHandles == InitHandles /\ [][NextHandles]_vars

\* ------------------------------------------------------------------------
\* Packed values read back from the heap
\* ------------------------------------------------------------------------
\* string::view: the length and the characters of the string at pos
view(st, pos) == <<st[pos - 1].size, st[pos].word>>

\* The bits of a double below nan_bits are a sign bit and a magnitude: 0 is
\* +0 and sign_bit is -0. operator== of two doubles: a NaN equals nothing,
\* the two zeros are equal
sign_bit == nan_bits \div 2

double_eq(a, b) ==
  /\ ~isnan(a) /\ ~isnan(b)
  /\ a = b \/ (a % sign_bit = 0 /\ b % sign_bit = 0)

\* operator==(const value&, const value&): "true", "false", or
\* "NOT_IMPLEMENTED" when the switch falls through to NOT_IMPLEMENTED
value_eq(st, l, r) ==
  IF l.type /= r.type THEN "false"
  ELSE CASE l.type = "undefined" -> "true"
         [] l.type = "null" -> "true"
         [] l.type = "boolean" -> IF l.x = r.x THEN "true" ELSE "false"
         [] l.type = "number" ->
              IF double_eq(l.x, r.x) \/ (isnan(l.x) /\ isnan(r.x)) THEN "true" ELSE "false"
         [] l.type = "string" ->
              IF view(st, l.x) = view(st, r.x) THEN "true" ELSE "false"
         [] l.type = "object" -> IF l.x = r.x THEN "true" ELSE "false"
         [] OTHER -> "NOT_IMPLEMENTED"

\* the position in st of the payload of allocation o
PositionOf(st, nf, o) ==
  CHOOSE pos \in 1 .. nf : pos - 1 \in Records(st, nf) /\ st[pos - 1].oid = o

\* the value v a box was built from, as its holder sees it now: a primitive
\* is itself, a handle names its object at the object's present position
value_now(st, nf, src) ==
  IF src.type \in HeapKinds
  THEN [type |-> src.type, x |-> PositionOf(st, nf, src.x)]
  ELSE src

\* the calls of the packed-value tests: strings, functions and objects, and
\* boxes that hold a packed value of every kind
ValueRequests(g, p) ==
  StringRequests(g, p, DataVals) \cup FuncRequests(g, p) \cup NodeRequests(g, p)
    \cup PrimBoxRequests(g, p) \cup RefBoxRequests(g, p)

\* value_representation::get_value on the packed value of the box p names,
\* compared with the value it was built from
GetValue(p) ==
  /\ Idle /\ hp[p].live /\ hp[p].heap_ /= 0
  /\ TypeAt(hp[p].heap_, p) = T_box
  /\ LET g == hp[p].heap_
         st == storage[g]
         got == get_value(st[hp[p].pos_].word)
         want == value_now(st, next_free[g], st[hp[p].pos_].src)
     IN result' = [NoResult EXCEPT !.op = "get_value", !.got = got, !.want = want,
                                   !.eq = value_eq(st, got, want),
                                   !.collected = snap.valid]
  /\ UNCHANGED <<heaps, storage, next_free, pointers, hp, gc_state, new_heap, req,
                 serial, destroyed, snap>>
  /\ UNCHANGED <<parserVars, typeVars>>

NextValue ==
  \/ \E p \in HandleIds : AllocFits(1, p, ValueRequests(1, p))
  \/ \E p \in HandleIds : AllocCollects(1, p, ValueRequests(1, p))
  \/ \E p \in HandleIds : HandleDestroy(p)
  \/ GcStart(1)
  \/ GcMoveRoot
  \/ GcFixup
  \/ GcCommit
  \/ \E p \in HandleIds : GetValue(p)

SpecValue == Init /\ [][NextValue]_vars

\* ------------------------------------------------------------------------
\* operator== on two values
\* ------------------------------------------------------------------------
\* undefined, null, the two booleans, +0, -0, 1, -1 and two NaNs
EqualsPrimitives ==
  { [type |-> "undefined", x |-> 0], [type |-> "null", x |-> 0] }
    \cup { [type |-> "boolean", x |-> b] : b \in {0, 1} }
    \cup { [type |-> "number", x |-> d] :
             d \in {0, sign_bit, 1, sign_bit + 1, nan_bits, nan_bits + 2 * payload_range} }

\* the strings, objects and functions the live handles name
EqualsHandles ==
  { [type |-> kind_of(TypeAt(1, q)), x |-> hp[q].pos_] : q \in LiveIn(1) }

\* l == r
Equals(l, r) ==
  /\ Idle
  /\ result' = [NoResult EXCEPT !.op = "equals", !.got = l, !.want = r,
                                !.eq = value_eq(storage[1], l, r)]
  /\ UNCHANGED <<heaps, storage, next_free, pointers, hp, gc_state, new_heap, req,
                 serial, destroyed, snap>>
  /\ UNCHANGED <<parserVars, typeVars>>

EqualsRequests(g, p) ==
  StringRequests(g, p, DataVals) \cup FuncRequests(g, p) \cup NodeRequests(g, p)

NextEquals ==
  \/ \E p \in HandleIds : AllocFits(1, p, EqualsRequests(1, p))
  \/ \E l, r \in EqualsPrimitives \cup EqualsHandles : Equals(l, r)

SpecEquals == Init /\ [][NextEquals]_vars

\* ------------------------------------------------------------------------
\* parse(): the loop over the statements of a source file
\* ------------------------------------------------------------------------
\* the tokens the lexer hands to the parser
ParserTokens ==
  {[type |-> "identifier", text |-> "a"], [type |-> "identifier", text |-> "b"],
   [type |-> "numeric_literal", text |-> "1"],
   [type |-> "plusplus", text |-> "++"], [type |-> "semicolon", text |-> ";"],
   [type |-> "lbrace", text |-> "{"], [type |-> "rbrace", text |-> "}"],
   [type |-> "return_", text |-> "return"], [type |-> "var_", text |-> "var"],
   [type |-> "break_", text |-> "break"],
   [type |-> "line_terminator", text |-> "\n"],
   [type |-> "whitespace", text |-> " "]}

TokenStreams(A) == UNION {[1 .. n -> A] : n \in 0 .. MaxTokens}

\* parser::parser on a source file: no heap is involved
InitParser ==
  /\ HeapInit({})
  /\ tokens \in TokenStreams(ParserTokens)
  /\ cur = NewParser.cur
  /\ token_start_ = NewParser.token_start_
  /\ line_break_skipped_ = NewParser.line_break_skipped_
  /\ expression_pos_ = NewParser.expression_pos_
  /\ statement_pos_ = NewParser.statement_pos_
  /\ log = NewParser.log
  /\ out = << >>
  /\ ast = NoNode
  /\ pstate = "run"

\* the parser object between two statements
ThisParser ==
  [NewParser EXCEPT !.cur = cur, !.token_start_ = token_start_,
                    !.line_break_skipped_ = line_break_skipped_,
                    !.expression_pos_ = expression_pos_,
                    !.statement_pos_ = statement_pos_, !.log = log]

\* parser::parse, one iteration of the loop: a statement is appended or the
\* exception leaves parse() with the extent of the offending token
ParseStatement ==
  /\ pstate = "run"
  /\ Tok(cur).type /= "eof"
  /\ LET R == parse_statement_or_function_declaration(ThisParser) IN
     /\ cur' = R.s.cur
     /\ token_start_' = R.s.token_start_
     /\ line_break_skipped_' = R.s.line_break_skipped_
     /\ expression_pos_' = R.s.expression_pos_
     /\ statement_pos_' = R.s.statement_pos_
     /\ log' = R.s.log
     /\ IF Failed(R)
        THEN /\ pstate' = "error"
             /\ ast' = Node("error", R.s.token_start_, text_position(R.s.cur),
                            R.s.err, << >>)
             /\ out' = out
        ELSE /\ pstate' = "run"
             /\ ast' = ast
             /\ out' = Append(out, R.v)
  /\ UNCHANGED <<tokens, heapVars, typeVars>>

\* parser::parse, after the loop: the block of all statements
ParseFinish ==
  /\ pstate = "run"
  /\ Tok(cur).type = "eof"
  /\ pstate' = "done"
  /\ ast' = Node("block_statement", 0, text_position(cur), "", out)
  /\ UNCHANGED <<tokens, cur, token_start_, line_break_skipped_, expression_pos_,
                 statement_pos_, log, out, heapVars, typeVars>>

NextParser == ParseStatement \/ ParseFinish

SpecParser == InitParser /\ [][NextParser]_vars

\* ------------------------------------------------------------------------
\* parse() on one expression: operands separated by operators
\* ------------------------------------------------------------------------
MaxOps == 4         \* most operators in an expression given to the parser

ExprOps ==
  {[type |-> "multiply", text |-> "*"], [type |-> "plus", text |-> "+"],
   [type |-> "minus", text |-> "-"], [type |-> "equalequal", text |-> "=="],
   [type |-> "equal", text |-> "="], [type |-> "comma", text |-> ","],
   [type |-> "question", text |-> "?"], [type |-> "colon", text |-> ":"]}

OperandNames == <<"a", "b", "c", "d", "e", "f", "g", "h">>
OperandDigits == <<"1", "2", "3", "7", "5", "6", "8", "9">>

\* the i-th operand: an identifier or a numeric literal
Operand(i, mode) ==
  IF mode = "identifier"
  THEN [type |-> "identifier", text |-> OperandNames[i]]
  ELSE [type |-> "numeric_literal", text |-> OperandDigits[i]]

\* operand, operator, operand, ..., operand
ExprStream(ops, mode) ==
  [k \in 1 .. 2 * Len(ops) + 1 |->
     IF k % 2 = 1 THEN Operand((k + 1) \div 2, mode) ELSE ops[k \div 2]]

InitExpr ==
  /\ HeapInit({})
  /\ \E n \in 0 .. MaxOps : \E ops \in [1 .. n -> ExprOps] :
       \E mode \in {"identifier", "numeric_literal"} :
         tokens = ExprStream(ops, mode)
  /\ cur = NewParser.cur
  /\ token_start_ = NewParser.token_start_
  /\ line_break_skipped_ = NewParser.line_break_skipped_
  /\ expression_pos_ = NewParser.expression_pos_
  /\ statement_pos_ = NewParser.statement_pos_
  /\ log = NewParser.log
  /\ out = << >>
  /\ ast = NoNode
  /\ pstate = "run"

SpecExpr == InitExpr /\ [][NextParser]_vars

\* ------------------------------------------------------------------------
\* What a collection must preserve
\* ------------------------------------------------------------------------
\* garbage_collect (or the allocation that ran it) has just returned
Collected == Idle /\ snap.valid /\ result.collected

\* an embedded field, with the slot index it holds replaced by the identity
\* of the allocation it names
FieldView(st, t, w) ==
  IF t = T_node
  THEN [k |-> "untracked", a |-> 0, b |-> IF w = 0 THEN 0 ELSE OidAt(st, w)]
  ELSE IF t = T_box /\ repr_has_pos(w)
  THEN [k |-> "packed", a |-> repr_tag(w), b |-> OidAt(st, repr_payload(w))]
  ELSE [k |-> "raw", a |-> 0, b |-> w]

\* the observable payload of the object at pos
PayloadView(st, pos) ==
  LET a == st[pos - 1] IN
  [i \in 0 .. (a.size - 2) |-> FieldView(st, a.type, st[pos + i].word)]

\* the objects reachable when the collection started, and their total size
SnapRoots == {snap.hp[snap.pointers[i]].pos_ : i \in 1 .. Len(snap.pointers)}
SnapReach == ReachFrom(snap.storage, SnapRoots)
SnapLiveSize == SumSizes(snap.storage, {p - 1 : p \in SnapReach})
SnapRecords == Records(snap.storage, snap.next_free)

\* the header position in st of the active record of allocation o (-1: none)
HeaderOf(st, nf, o) ==
  LET S == {p \in Records(st, nf) : active(st[p]) /\ st[p].oid = o} IN
  IF S = {} THEN 0 - 1 ELSE CHOOSE p \in S : TRUE

\* C1: after garbage_collect every handle that was registered before it is
\* registered once with the heap, and names an active record of the type and
\* with the payload its object had before the collection.
C1_HandlesSurvive ==
  Collected =>
    \A i \in 1 .. Len(snap.pointers) :
      LET p == snap.pointers[i]
          g == snap.g
          old_pos == snap.hp[p].pos_
          pos == hp[p].pos_
      IN /\ Count(pointers[g], p) = 1
         /\ hp[p].heap_ = g
         /\ pos > 0 /\ pos < next_free[g]
         /\ active(storage[g][pos - 1])
         /\ storage[g][pos - 1].type = snap.storage[old_pos - 1].type
         /\ storage[g][pos - 1].size = snap.storage[old_pos - 1].size
         /\ PayloadView(storage[g], pos) = PayloadView(snap.storage, old_pos)

\* a collection has moved a handle's object that embeds a reference
C1_Witness ==
  /\ Collected
  /\ \E i \in 1 .. Len(snap.pointers) :
       /\ hp[snap.pointers[i]].pos_ /= snap.hp[snap.pointers[i]].pos_
       /\ Embedded(snap.storage, snap.hp[snap.pointers[i]].pos_) /= {}

\* C2: an allocation that no tracked handle reaches when a collection starts
\* has its destroy hook run exactly once, in that collection, and is no
\* active record afterwards; no destroy hook ever runs twice, heap teardown
\* included.
C2_DestroyedOnce ==
  /\ \A o \in 1 .. MaxAllocs : destroyed[o] <= 1
  /\ Collected =>
       \A h \in SnapRecords :
         (h + 1) \notin SnapReach =>
           /\ type_info(snap.storage[h].type).destroy_ => destroyed[snap.storage[h].oid] = 1
           /\ HeaderOf(storage[snap.g], next_free[snap.g], snap.storage[h].oid) < 0

\* a collection has destroyed an unreachable object that has a destroy hook
C2_Witness ==
  /\ Collected
  /\ \E h \in SnapRecords :
       /\ (h + 1) \notin SnapReach
       /\ type_info(snap.storage[h].type).destroy_
       /\ destroyed[snap.storage[h].oid] = 1

\* C3: an object B that only a field embedded in a reachable object A names
\* is an active record after the collection, its destroy hook has not run,
\* and the field of A holds B's position in the new storage.
C3_EmbeddedSurvive ==
  Collected =>
    \A pa \in SnapReach : \A pb \in Embedded(snap.storage, pa) :
      pb \notin SnapRoots =>
        LET g == snap.g
            ha == HeaderOf(storage[g], next_free[g], OidAt(snap.storage, pa))
            hb == HeaderOf(storage[g], next_free[g], OidAt(snap.storage, pb))
        IN /\ ha >= 0 /\ hb >= 0
           /\ destroyed[OidAt(snap.storage, pb)] = 0
           /\ Embedded(storage[g], ha + 1) = {hb + 1}

\* a collection has kept an object that only an embedded field names, at a
\* new position
C3_Witness ==
  /\ Collected
  /\ \E pa \in SnapReach : \E pb \in Embedded(snap.storage, pa) :
       /\ pb \notin SnapRoots
       /\ HeaderOf(storage[snap.g], next_free[snap.g], OidAt(snap.storage, pb)) + 1 /= pb

\* C5: allocate_and_construct reports OUT_OF_MEMORY only after a collection
\* was run for that request and the request still does not fit beside the
\* objects that were reachable; a request that fits beside them succeeds.
C5_OutOfMemoryOnlyAfterGc ==
  /\ result.status = "OUT_OF_MEMORY" =>
       /\ result.op = "allocate" /\ Collected
       /\ num_slots_for(result.num_bytes) + SnapLiveSize > Cap
  /\ (result.op = "allocate" /\ Collected
        /\ num_slots_for(result.num_bytes) + SnapLiveSize <= Cap) =>
       /\ result.status = "ok"
       /\ calc_used(storage[snap.g], next_free[snap.g])
            = SnapLiveSize + num_slots_for(result.num_bytes)

\* an allocation has failed after its collection
C5_Witness == result.status = "OUT_OF_MEMORY" /\ Collected

\* an allocation has succeeded only because its collection freed storage
C5_WitnessFreed ==
  /\ result.op = "allocate" /\ result.status = "ok" /\ Collected
  /\ SnapLiveSize < snap.next_free

\* C6: right after garbage_collect calc_used is the sum of the sizes, header
\* slot included, of the allocations that were reachable from the tracked
\* handles when the collection started (plus the object of the allocation
\* that ran the collection, when there is one).
C6_UsedIsLiveSize ==
  Collected =>
    calc_used(storage[snap.g], next_free[snap.g])
      = SnapLiveSize + (IF result.op = "allocate" /\ result.status = "ok"
                        THEN num_slots_for(result.num_bytes) ELSE 0)

\* garbage_collect has dropped some allocations and kept several, one of
\* them reachable only through an embedded field
C6_Witness ==
  /\ Collected /\ result.op = "garbage_collect"
  /\ SnapLiveSize < snap.next_free
  /\ Cardinality(SnapReach) >= 2
  /\ SnapReach /= SnapRoots
  /\ calc_used(storage[snap.g], next_free[snap.g]) = SnapLiveSize

\* ------------------------------------------------------------------------
\* Registration of tracked handles
\* ------------------------------------------------------------------------
\* C4: after any sequence of tracked-handle operations (default
\* construction, construction from an allocation, copy construction, copy
\* assignment including self-assignment and assignment across two heaps,
\* destruction) every handle with a non-null heap appears exactly once in
\* that heap's pointer set and in no other heap's, a null handle appears in
\* none, and no pointer set holds an entry for a destroyed handle.
C4_HandleRegistration ==
  \A p \in HandleIds : \A g \in HeapIds :
    Count(pointers[g], p) = IF hp[p].live /\ hp[p].heap_ = g THEN 1 ELSE 0

\* a handle that named an object of heap 1 has been assigned from a handle
\* of heap 2: heap 1 keeps the object but no registration, heap 2 has both
\* handles, the assigned one registered last
C4_Witness ==
  /\ hp[1].live /\ hp[2].live
  /\ hp[1].heap_ = 2 /\ hp[1] = hp[2]
  /\ pointers[2] = <<2, 1>> /\ pointers[1] = << >>
  /\ next_free[1] > 0

\* ------------------------------------------------------------------------
\* Round trip of packed values
\* ------------------------------------------------------------------------
\* C7: for every value v of kind undefined, null, boolean, number, string,
\* object or native-function, value_representation(v).get_value(heap) is
\* equal to v under operator==, also when a collection with
\* fixup_after_move ran between packing and unpacking.
C7_RoundTrip == result.op = "get_value" => result.eq = "true"

\* the round trip of every kind that operator== compares: the unpacked
\* value is equal to v
C7_RoundTripComparable ==
  (result.op = "get_value" /\ result.want.type /= "native_function") =>
    result.eq = "true"

\* a packed string, object or function was read back after a collection
\* moved the object it names
C7_WitnessMoved ==
  /\ result.op = "get_value" /\ result.collected
  /\ result.got.type \in HeapKinds
  /\ result.got.x /= PositionOf(snap.storage, snap.next_free,
                                OidAt(storage[snap.g], result.got.x))

\* ------------------------------------------------------------------------
\* Line breaks in the parser
\* ------------------------------------------------------------------------
TokType(i) == Tok(i).type

\* the source offset at which the token of index i starts
Offset(i) == text_position(i - 1)

Significant(i) == TokType(i) \notin {"whitespace", "line_terminator"}

\* the last token before index i that the parser consumed with get_token
\* (0 if none), and the first one after it
LastConsumed(i) ==
  IF \E j \in 1 .. i - 1 : Significant(j)
  THEN CHOOSE j \in 1 .. i - 1 :
         Significant(j) /\ \A k \in j + 1 .. i - 1 : ~Significant(k)
  ELSE 0
NextSignificant(i) ==
  CHOOSE j \in i + 1 .. Len(tokens) + 1 :
    Significant(j) /\ \A k \in i + 1 .. j - 1 : ~Significant(k)

\* a line terminator lies between the last consumed token and token i
LineTerminatorBefore(i) ==
  \E j \in LastConsumed(i) + 1 .. i - 1 : TokType(j) = "line_terminator"

Events(fn) == {i \in 1 .. Len(log) : log[i].fn = fn}

RECURSIVE AllNodes(_)
AllNodes(n) == {n} \cup UNION {AllNodes(n[5][i]) : i \in 1 .. Len(n[5])}

\* a node without its extent
RECURSIVE Shape(_)
Shape(n) == <<n[1], n[4], [i \in 1 .. Len(n[5]) |-> Shape(n[5][i])]>>

StatementKinds ==
  {"block_statement", "variable_statement", "empty_statement",
   "expression_statement", "if_statement", "while_statement", "for_statement",
   "for_in_statement", "continue_statement", "break_statement",
   "return_statement", "with_statement", "function_definition"}

\* the statements of the parsed program that start at token i
StatementsAt(i) ==
  {n \in AllNodes(ast) : n[1] \in StatementKinds /\ n[2] = Offset(i)}

T_a == [type |-> "identifier", text |-> "a"]
T_b == [type |-> "identifier", text |-> "b"]
T_1 == [type |-> "numeric_literal", text |-> "1"]
T_plusplus == [type |-> "plusplus", text |-> "++"]
T_return == [type |-> "return_", text |-> "return"]
T_newline == [type |-> "line_terminator", text |-> "\n"]

\* C8: wherever a statement asks for its terminating semicolon (after var,
\* continue, break, return and an expression statement): if a line
\* terminator was skipped since the last consumed token, or the current
\* token is `}` or the end of input, the parser goes on without error and
\* consumes a `;` exactly when one is the current token; in every other
\* state a current token other than `;` raises an error, and a `;` is
\* consumed.
C8_SemicolonInsertion ==
  \A i \in Events("semicolon") :
    LET e == log[i]
        tt == TokType(e.at)
    IN  IF LineTerminatorBefore(e.at) \/ tt = "rbrace" \/ tt = "eof"
        THEN ~e.err /\ (e.acted <=> tt = "semicolon")
        ELSE IF tt = "semicolon" THEN e.acted /\ ~e.err
        ELSE e.err /\ ~e.acted

\* a semicolon was inserted between two statements on different lines
C8_Witness ==
  /\ pstate = "done"
  /\ \E i \in Events("semicolon") :
       /\ LineTerminatorBefore(log[i].at)
       /\ TokType(log[i].at) \in {"identifier", "var_", "break_", "return_"}
       /\ ~log[i].acted /\ ~log[i].err

\* the last statement of a block went without its semicolon
C8_WitnessBrace ==
  /\ pstate = "done"
  /\ \E i \in Events("semicolon") :
       TokType(log[i].at) = "rbrace" /\ ~LineTerminatorBefore(log[i].at) /\ ~log[i].err

\* C9: a `++` or `--` after a left-hand-side expression is consumed as its
\* postfix operator iff no line terminator was skipped between the operand's
\* last token and the operator; with a line terminator in between, a
\* program that parses has a statement ending at the operator and an
\* expression statement starting there with the operator as a prefix
\* operator: `a\n++b` gives the statements `a` and `++b`, `a++\nb` gives
\* `a++` and `b`.
C9_PostfixNeedsSameLine ==
  /\ \A i \in Events("postfix") :
       LET at == log[i].at IN
       TokType(at) \in {"plusplus", "minusminus"} =>
         /\ log[i].acted <=> ~LineTerminatorBefore(at)
         /\ (pstate = "done" /\ LineTerminatorBefore(at)) =>
              /\ \E n \in AllNodes(ast) : n[1] \in StatementKinds /\ n[3] = Offset(at)
              /\ \E n \in StatementsAt(at) : n[1] = "expression_statement"
              /\ \E n \in AllNodes(ast) :
                   n[1] = "prefix" /\ n[4] = TokType(at) /\ n[2] = Offset(at)
  /\ (pstate = "done" /\ tokens = <<T_a, T_newline, T_plusplus, T_b>>) =>
       Shape(ast) =
         <<"block_statement", "",
           << <<"expression_statement", "", << <<"identifier", "a", << >> >> >> >>,
              <<"expression_statement", "",
                << <<"prefix", "plusplus", << <<"identifier", "b", << >> >> >> >> >> >> >> >>
  /\ (pstate = "done" /\ tokens = <<T_a, T_plusplus, T_newline, T_b>>) =>
       Shape(ast) =
         <<"block_statement", "",
           << <<"expression_statement", "",
                << <<"postfix", "plusplus", << <<"identifier", "a", << >> >> >> >> >> >>,
              <<"expression_statement", "", << <<"identifier", "b", << >> >> >> >> >> >>

\* `a\n++b` has been parsed
C9_Witness ==
  /\ pstate = "done"
  /\ tokens = <<T_a, T_newline, T_plusplus, T_b>>
  /\ \E i \in Events("postfix") : log[i].at = 3 /\ ~log[i].acted

\* the return statements of the parsed program, by the index of their keyword
ReturnAt(k) == {n \in StatementsAt(k) : n[1] = "return_statement"}

\* C10: after `return`, if a line terminator was skipped before the next
\* token, the return statement is produced without expression and the
\* tokens that follow are parsed as a separate statement (`return\n1` gives
\* a return without expression and the expression statement `1`); if none
\* was skipped and the next token is not `;`, the expression that follows
\* becomes the return's expression.
C10_ReturnNeedsSameLine ==
  /\ \A i \in Events("return") :
       log[i].acted <=>
         (~LineTerminatorBefore(log[i].at) /\ TokType(log[i].at) /= "semicolon")
  /\ pstate = "done" =>
       \A k \in 1 .. Len(tokens) :
         TokType(k) = "return_" =>
           LET at == NextSignificant(k) IN
           /\ ReturnAt(k) /= {}
           /\ \A r \in ReturnAt(k) :
                IF LineTerminatorBefore(at)
                THEN /\ r[5] = <<NoNode>>
                     /\ TokType(at) \notin {"semicolon", "rbrace", "eof"} =>
                          /\ r[3] = Offset(at)
                          /\ StatementsAt(at) /= {}
                ELSE TokType(at) /= "semicolon" =>
                          /\ r[5][1] /= NoNode
                          /\ r[5][1][2] = Offset(at)
  /\ (pstate = "done" /\ tokens = <<T_return, T_newline, T_1>>) =>
       Shape(ast) =
         <<"block_statement", "",
           << <<"return_statement", "", <<Shape(NoNode)>> >>,
              <<"expression_statement", "", << <<"literal", "1", << >> >> >> >> >> >>

\* `return\n1` has been parsed
C10_Witness ==
  /\ pstate = "done"
  /\ tokens = <<T_return, T_newline, T_1>>
  /\ \E i \in Events("return") : ~log[i].acted

\* a return on the line of its expression has been parsed
C10_WitnessSameLine ==
  /\ pstate = "done"
  /\ \E i \in Events("return") : log[i].acted

\* ------------------------------------------------------------------------
\* Precedence and associativity of binary operators
\* ------------------------------------------------------------------------
\* the number of operands below a node
RECURSIVE Leaves(_)
Leaves(n) ==
  IF n[5] = << >> THEN 1
  ELSE IF Len(n[5]) = 2 THEN Leaves(n[5][1]) + Leaves(n[5][2])
  ELSE Leaves(n[5][1]) + Leaves(n[5][2]) + Leaves(n[5][3])

\* the operands of a tree of binary nodes, left to right
RECURSIVE Operands(_)
Operands(n) ==
  IF n[1] = "binary" THEN Operands(n[5][1]) \o Operands(n[5][2]) ELSE <<n[4]>>

\* for a tree of binary nodes whose first operand is operand number base:
\* <<i, op, lo, hi>> for the node of the i-th operator, which spans the
\* operands lo .. hi
RECURSIVE Spans(_, _)
Spans(n, base) ==
  IF n[1] /= "binary" THEN {}
  ELSE LET sl == Leaves(n[5][1]) IN
       {<<base + sl - 1, n[4], base, base + sl + Leaves(n[5][2]) - 1>>}
         \cup Spans(n[5][1], base) \cup Spans(n[5][2], base + sl)

\* the operators of an expression stream, and its operand texts
NumOps == Len(tokens) \div 2
OpAt(i) == TokType(2 * i)
OperandTexts == [i \in 1 .. NumOps + 1 |-> tokens[2 * i - 1].text]

\* the stream is operands separated by binary operators only
OnlyBinary ==
  /\ Len(tokens) % 2 = 1
  /\ \A i \in 1 .. Len(tokens) :
       IF i % 2 = 1 THEN TokType(i) \in {"identifier", "numeric_literal"}
       ELSE operator_precedence(TokType(i)) <= comma_precedence /\ TokType(i) /= "question"

\* the expression of the only statement of the parsed program
TheExpression == ast[5][1][5][1]

\* the span of the i-th operator in the parsed expression
SpanOf(i) == CHOOSE s \in Spans(TheExpression, 1) : s[1] = i

\* the node of operator i lies in the left operand of operator i + 1
InLeftOfNext(i) == SpanOf(i)[4] = i + 1 /\ SpanOf(i + 1)[3] <= SpanOf(i)[3]
\* the node of operator i + 1 lies in the right operand of operator i
InRightOfPrevious(i) == SpanOf(i + 1)[3] = i + 1 /\ SpanOf(i)[4] >= SpanOf(i + 1)[4]

\* a parsed expression with every node written as <<kind, text, children>>
Leaf(kind, t) == <<kind, t, << >> >>
Bin(op, l, r) == <<"binary", op, <<l, r>> >>
Cond(c, l, r) == <<"conditional", "", <<c, l, r>> >>
ProgramOf(e) == <<"block_statement", "", << <<"expression_statement", "", <<e>> >> >> >>

Lit(t) == Leaf("literal", t)
Id(t) == Leaf("identifier", t)

TokOp(tt) == CHOOSE t \in ExprOps : t.type = tt

\* C11: in an expression of operands and binary operators of the precedence
\* table, of two neighbouring operators the one with the smaller precedence
\* number binds tighter, whichever comes first: its node lies inside the
\* operand of the other that faces it. `1+2*3==7` gives ((1+(2*3))==7) and
\* `1==2*3+7` gives (1==((2*3)+7)).
C11_PrecedenceBindsTighter ==
  /\ OnlyBinary => pstate /= "error"
  /\ (OnlyBinary /\ pstate = "done") =>
       /\ Len(out) = 1
       /\ Operands(TheExpression) = OperandTexts
       /\ \A i \in 1 .. NumOps : \E s \in Spans(TheExpression, 1) : s[1] = i /\ s[2] = OpAt(i)
       /\ \A i \in 1 .. NumOps - 1 :
            /\ operator_precedence(OpAt(i)) < operator_precedence(OpAt(i + 1))
                 => InLeftOfNext(i)
            /\ operator_precedence(OpAt(i)) > operator_precedence(OpAt(i + 1))
                 => InRightOfPrevious(i)
  /\ (pstate = "done"
        /\ tokens = ExprStream(<<TokOp("plus"), TokOp("multiply"), TokOp("equalequal")>>,
                               "numeric_literal")) =>
       Shape(ast) = ProgramOf(Bin("equalequal",
                                Bin("plus", Lit("1"), Bin("multiply", Lit("2"), Lit("3"))),
                                Lit("7")))
  /\ (pstate = "done"
        /\ tokens = ExprStream(<<TokOp("equalequal"), TokOp("multiply"), TokOp("plus")>>,
                               "numeric_literal")) =>
       Shape(ast) = ProgramOf(Bin("equalequal", Lit("1"),
                                Bin("plus", Bin("multiply", Lit("2"), Lit("3")), Lit("7"))))

\* `1==2*3+7` has been parsed: the tighter operators follow the looser one
C11_Witness ==
  /\ pstate = "done"
  /\ tokens = ExprStream(<<TokOp("equalequal"), TokOp("multiply"), TokOp("plus")>>,
                         "numeric_literal")
  /\ InRightOfPrevious(1) /\ InLeftOfNext(2)

\* C12: two neighbouring binary operators of equal precedence group to the
\* right iff that precedence is >= 15 (assignment operators, `?:`, comma)
\* and to the left otherwise: `a=b=c` gives a=(b=c), `a?b:c?d:e` gives
\* a?b:(c?d:e), `a-b-c` gives (a-b)-c.
C12_Associativity ==
  /\ (OnlyBinary /\ pstate = "done") =>
       \A i \in 1 .. NumOps - 1 :
         operator_precedence(OpAt(i)) = operator_precedence(OpAt(i + 1)) =>
           IF operator_precedence(OpAt(i)) >= 15
           THEN InRightOfPrevious(i) /\ ~InLeftOfNext(i)
           ELSE InLeftOfNext(i) /\ ~InRightOfPrevious(i)
  /\ (pstate = "done"
        /\ tokens = ExprStream(<<TokOp("equal"), TokOp("equal")>>, "identifier")) =>
       Shape(ast) = ProgramOf(Bin("equal", Id("a"), Bin("equal", Id("b"), Id("c"))))
  /\ (pstate = "done"
        /\ tokens = ExprStream(<<TokOp("minus"), TokOp("minus")>>, "identifier")) =>
       Shape(ast) = ProgramOf(Bin("minus", Bin("minus", Id("a"), Id("b")), Id("c")))
  /\ tokens = ExprStream(<<TokOp("question"), TokOp("colon"), TokOp("question"),
                           TokOp("colon")>>, "identifier") =>
       /\ pstate /= "error"
       /\ pstate = "done" =>
            Shape(ast) = ProgramOf(Cond(Id("a"), Id("b"), Cond(Id("c"), Id("d"), Id("e"))))

\* `a=b=c` has been parsed
C12_Witness ==
  /\ pstate = "done"
  /\ tokens = ExprStream(<<TokOp("equal"), TokOp("equal")>>, "identifier")
  /\ InRightOfPrevious(1)

\* `a?b:c?d:e` has been parsed
C12_WitnessConditional ==
  /\ pstate = "done"
  /\ tokens = ExprStream(<<TokOp("question"), TokOp("colon"), TokOp("question"),
                           TokOp("colon")>>, "identifier")

\* ------------------------------------------------------------------------
\* parse() on texts of the grammar
\* ------------------------------------------------------------------------
SourceLength == text_position(Len(tokens))

Blank(t) == t.type \in {"whitespace", "line_terminator"}

\* the text without the whitespace and line terminators at its two ends,
\* and without the whitespace in between
RECURSIVE TrimLeft(_)
TrimLeft(s) == IF s /= << >> /\ Blank(Head(s)) THEN TrimLeft(Tail(s)) ELSE s
RECURSIVE TrimRight(_)
TrimRight(s) ==
  IF s /= << >> /\ Blank(s[Len(s)]) THEN TrimRight(SubSeq(s, 1, Len(s) - 1)) ELSE s
Core(s) == SelectSeq(TrimRight(TrimLeft(s)), LAMBDA t : t.type /= "whitespace")

T_semicolon == [type |-> "semicolon", text |-> ";"]
T_lbrace == [type |-> "lbrace", text |-> "{"]
T_rbrace == [type |-> "rbrace", text |-> "}"]
T_var == [type |-> "var_", text |-> "var"]
T_break == [type |-> "break_", text |-> "break"]

\* programs of the grammar, every statement with its own semicolon: the
\* empty program, `;`, `a;`, `1;`, `;;`, `{}`, `{;}`, `{a;}`, `var a;`,
\* `break;`, `return;`, `return 1;`, `++a;`, `a++;`, `a;b;`
Programs ==
  { << >>, <<T_semicolon>>, <<T_a, T_semicolon>>, <<T_1, T_semicolon>>,
    <<T_semicolon, T_semicolon>>, <<T_lbrace, T_rbrace>>,
    <<T_lbrace, T_semicolon, T_rbrace>>, <<T_lbrace, T_a, T_semicolon, T_rbrace>>,
    <<T_var, T_a, T_semicolon>>, <<T_break, T_semicolon>>,
    <<T_return, T_semicolon>>, <<T_return, T_1, T_semicolon>>,
    <<T_plusplus, T_a, T_semicolon>>, <<T_a, T_plusplus, T_semicolon>>,
    <<T_a, T_semicolon, T_b, T_semicolon>> }

\* the text is one of these programs with whitespace between its tokens and
\* whitespace and line terminators before and after it
Conforms == Core(tokens) \in Programs

\* C13: for every source text of the grammar, the empty text, text with
\* leading or trailing whitespace and line terminators and whitespace-only
\* text included, parse succeeds and the top-level block has the extent
\* [0, len(s)).
C13_ParseSucceeds ==
  /\ Conforms => pstate /= "error"
  /\ pstate = "done" => (ast[1] = "block_statement" /\ ast[2] = 0 /\ ast[3] = SourceLength)

\* the same for the texts that hold at least one token besides whitespace
\* and line terminators, and for the empty text
C13_ParseSucceedsNotBlank ==
  /\ (Conforms /\ (tokens = << >> \/ Core(tokens) /= << >>)) => pstate /= "error"
  /\ pstate = "done" => (ast[1] = "block_statement" /\ ast[2] = 0 /\ ast[3] = SourceLength)

\* a program with white space before and after it has been parsed
C13_WitnessPadded ==
  /\ pstate = "done" /\ Conforms
  /\ Len(tokens) = MaxTokens /\ Blank(tokens[1]) /\ Blank(tokens[Len(tokens)])
  /\ Core(tokens) /= << >>

\* parse has raised on a text of white space only
C13_WitnessBlank ==
  /\ pstate = "error" /\ tokens /= << >> /\ Core(tokens) = << >>

\* ------------------------------------------------------------------------
\* parse() on texts cut off or broken at a known token
\* ------------------------------------------------------------------------
T_for == [type |-> "for_", text |-> "for"]
T_in == [type |-> "in_", text |-> "in"]
T_lparen == [type |-> "lparen", text |-> "("]
T_rparen == [type |-> "rparen", text |-> ")"]
T_comma == [type |-> "comma", text |-> ","]
T_space == [type |-> "whitespace", text |-> " "]

ForInits ==
  { << >>, <<T_a>>, <<T_var, T_space, T_a>>,
    <<T_var, T_space, T_a, T_comma, T_b>> }
ForConds == { << >>, <<T_b>> }
ForIters == { << >>, <<T_a>> }
ForBodies == { <<T_semicolon>>, <<T_lbrace, T_rbrace>> }

\* a text, the index bad of its first token that no program continues with
\* (0 if the text is a program, Len + 1 for the end of the text), and the
\* length min from which on its prefixes are no programs
Sentence(text, bad, min) == [text |-> text, bad |-> bad, min |-> min]

\* for (init; cond; iter) body
ForSentences ==
  { Sentence(<<T_for, T_lparen>> \o i \o <<T_semicolon>> \o c \o <<T_semicolon>>
               \o u \o <<T_rparen>> \o b, 0, 1) :
      i \in ForInits, c \in ForConds, u \in ForIters, b \in ForBodies }

\* for (init in b) body: a declaration list of two before `in` is no program
ForInSentences ==
  { Sentence(<<T_for, T_lparen>> \o i \o <<T_space, T_in, T_space, T_b, T_rparen>> \o b,
             IF Len(i) = 5 THEN Len(i) + 4 ELSE 0, 1) :
      i \in ForInits \ { << >> }, b \in ForBodies }

\* a b; / var ;a / var 1; / { ; / } a / a++ ++; / break a; / ++;a / a 1 /
\* { a b} / a;} a
BrokenSentences ==
  { Sentence(<<T_a, T_space, T_b, T_semicolon>>, 3, 3),
    Sentence(<<T_var, T_semicolon, T_a>>, 2, 2),
    Sentence(<<T_var, T_space, T_1, T_semicolon>>, 3, 3),
    Sentence(<<T_lbrace, T_semicolon>>, 3, 1),
    Sentence(<<T_rbrace, T_a>>, 1, 1),
    Sentence(<<T_a, T_plusplus, T_plusplus, T_semicolon>>, 3, 3),
    Sentence(<<T_break, T_space, T_a, T_semicolon>>, 3, 3),
    Sentence(<<T_plusplus, T_semicolon, T_a>>, 2, 1),
    Sentence(<<T_a, T_space, T_1>>, 3, 3),
    Sentence(<<T_lbrace, T_a, T_space, T_b, T_rbrace>>, 4, 1),
    Sentence(<<T_a, T_semicolon, T_rbrace, T_space, T_a>>, 3, 3) }

Sentences == ForSentences \cup ForInSentences \cup BrokenSentences

SyntaxStreams ==
  UNION { {SubSeq(s.text, 1, n) : n \in s.min .. Len(s.text)} : s \in Sentences }

InitSyntax ==
  /\ HeapInit({})
  /\ tokens \in SyntaxStreams
  /\ cur = NewParser.cur
  /\ token_start_ = NewParser.token_start_
  /\ line_break_skipped_ = NewParser.line_break_skipped_
  /\ expression_pos_ = NewParser.expression_pos_
  /\ statement_pos_ = NewParser.statement_pos_
  /\ log = NewParser.log
  /\ out = << >>
  /\ ast = NoNode
  /\ pstate = "run"

SpecSyntax == InitSyntax /\ [][NextParser]_vars

\* ------------------------------------------------------------------------
\* The first unexpected token
\* ------------------------------------------------------------------------
Matches ==
  {s \in Sentences : /\ Len(tokens) \in s.min .. Len(s.text)
                     /\ SubSeq(s.text, 1, Len(tokens)) = tokens}

FirstUnexpectedIn(s) ==
  IF s.bad /= 0 /\ Len(tokens) + 1 >= s.bad THEN s.bad
  ELSE IF Len(tokens) = Len(s.text) THEN 0
  ELSE Len(tokens) + 1

\* the index of the first token of the text that no program continues with:
\* Len(tokens) + 1 is the end of the text, 0 says the text is a program
FirstUnexpected == FirstUnexpectedIn(CHOOSE s \in Matches : TRUE)

\* the sentences a text is a prefix of agree on it
FirstUnexpectedDefined ==
  Matches /= {} /\ \A s \in Matches : FirstUnexpectedIn(s) = FirstUnexpected

\* the text runs into the `in` after a declaration list of two
DeclarationListIn ==
  \E s \in Matches : s \in ForInSentences /\ s.bad /= 0 /\ Len(tokens) >= s.bad

ErrorAt(k) ==
  /\ pstate /= "done"
  /\ pstate = "run" => cur <= k
  /\ \A j \in k + 1 .. cur - 1 : ~Significant(j)
  /\ pstate = "error" =>
       /\ ast[1] = "error"
       /\ ast[2] = Offset(k)
       /\ ast[3] = Offset(k) + TokLen(Tok(k))
       /\ \A i \in 1 .. Len(out) : out[i][3] <= Offset(k)

\* C14: on the first unexpected token parse raises and returns no tree: no
\* token after the offending one is consumed, no further statement is
\* parsed, and the error carries the extent from the start of the offending
\* token to its end.
C14_FirstError ==
  FirstUnexpected /= 0 => ErrorAt(FirstUnexpected)

\* the same for the texts other than a for statement with a declaration
\* list of two before `in`
C14_FirstErrorButDeclarationListIn ==
  (FirstUnexpected /= 0 /\ ~DeclarationListIn) => ErrorAt(FirstUnexpected)

\* an error after a statement that was parsed, at a token inside the text
C14_Witness ==
  /\ pstate = "error" /\ out /= << >>
  /\ FirstUnexpected \in 1 .. Len(tokens)

\* an error at the end of a text that breaks off inside a for statement
C14_WitnessEnd ==
  /\ pstate = "error" /\ FirstUnexpected = Len(tokens) + 1 /\ Len(tokens) > 6

\* the error of for (var a,b in b);
C14_WitnessDeclarationListIn ==
  /\ pstate = "error" /\ DeclarationListIn /\ Len(tokens) > 9

\* ------------------------------------------------------------------------
\* Equality of values
\* ------------------------------------------------------------------------
\* the number a double's bits stand for (not for a NaN)
NumberOf(d) == IF d < sign_bit THEN d ELSE 0 - (d - sign_bit)

\* the length and the characters of the string object at pos
Characters(pos) == <<storage[1][pos - 1].size, storage[1][pos].word>>

SameValue(l, r) ==
  /\ l.type = r.type
  /\ CASE l.type \in {"undefined", "null"} -> TRUE
       [] l.type = "boolean" -> l.x = r.x
       [] l.type = "number" ->
            \/ isnan(l.x) /\ isnan(r.x)
            \/ ~isnan(l.x) /\ ~isnan(r.x) /\ NumberOf(l.x) = NumberOf(r.x)
       [] l.type = "string" -> Characters(l.x) = Characters(r.x)
       [] l.type \in {"object", "native_function"} -> l.x = r.x

\* C15: for values l and r that are no references l == r returns a boolean
\* and does not raise: false when the kinds differ, true for undefined and
\* null, booleans by value, strings by their characters, objects and native
\* functions by identity, numbers by IEEE equality or when both are NaN.
C15_Equality ==
  result.op = "equals" =>
    result.eq = (IF SameValue(result.got, result.want) THEN "true" ELSE "false")

\* the same for the values that are no native functions on both sides
C15_EqualityButFunctions ==
  (result.op = "equals" /\ ~(result.got.type = "native_function"
                               /\ result.want.type = "native_function")) =>
    result.eq = (IF SameValue(result.got, result.want) THEN "true" ELSE "false")

\* two string objects with the same characters have been compared
C15_WitnessStrings ==
  /\ result.op = "equals" /\ result.got.type = "string" /\ result.want.type = "string"
  /\ result.got.x /= result.want.x /\ result.eq = "true"

\* +0 has been compared with -0, and a NaN with another NaN
C15_WitnessZeros ==
  /\ result.op = "equals" /\ result.got = [type |-> "number", x |-> 0]
  /\ result.want = [type |-> "number", x |-> sign_bit] /\ result.eq = "true"

C15_WitnessNaNs ==
  /\ result.op = "equals" /\ result.got.type = "number" /\ result.want.type = "number"
  /\ isnan(result.got.x) /\ isnan(result.want.x) /\ result.got.x /= result.want.x
  /\ result.eq = "true"

\* a native function has been compared with itself
C15_WitnessFunction ==
  /\ result.op = "equals" /\ result.got.type = "native_function"
  /\ result.want = result.got /\ result.eq = "NOT_IMPLEMENTED"

\* ------------------------------------------------------------------------
\* to_uint32, to_int32
\* ------------------------------------------------------------------------
\* A double is NaN, an infinity, or sign * (hi * 2^32 + mid * 2^16 + lo + half / 2)
\* with mid and lo below 2^16: the integer part is kept in 16-bit limbs, so
\* that 2^32 itself never has to be written as one integer.
limb == 2 ^ 16

MaxHigh == 2

Double(kind, neg, hi, mid, lo, half) ==
  [kind |-> kind, neg |-> neg, hi |-> hi, mid |-> mid, lo |-> lo, half |-> half]

Doubles ==
  { Double("nan", FALSE, 0, 0, 0, 0) }
    \cup { Double("inf", s, 0, 0, 0, 0) : s \in BOOLEAN }
    \cup { Double("finite", s, h, m, l, f) :
             s \in BOOLEAN, h \in 0 .. MaxHigh,
             m \in {0, 1, limb \div 2 - 1, limb \div 2, limb - 1},
             l \in {0, 1, 2, limb - 1}, f \in {0, 1} }

\* n == 0
is_zero(n) == n.kind = "finite" /\ n.hi = 0 /\ n.mid = 0 /\ n.lo = 0 /\ n.half = 0

\* n < 0
is_negative(n) == n.kind /= "nan" /\ n.neg /\ ~is_zero(n)

\* a to_integer_inner that drops the sign
to_integer_inner_abs(n) == [n EXCEPT !.half = 0, !.neg = FALSE]

\* to_integer_inner: (n < 0 ? -1 : 1) * floor(abs(n))
to_integer_inner(n) == [n EXCEPT !.half = 0]

\* std::floor(n / max) for an integral n and max = 2^32, as an integer
floor_div_max(n) ==
  IF ~is_negative(n) THEN n.hi
  ELSE IF n.mid = 0 /\ n.lo = 0 THEN 0 - n.hi
  ELSE 0 - (n.hi + 1)

\* n - max * q for an integral n and an integer q: the two limbs
\* <<high, low>> of the difference, which lies in [0, 2^32). k counts the
\* multiples of max that q takes beyond those of n
minus_max_times(n, q) ==
  LET k == IF is_negative(n) THEN q + n.hi ELSE q - n.hi IN
  IF k = 0 THEN <<n.mid, n.lo>>
  ELSE IF n.lo = 0 THEN <<limb - n.mid, 0>>
  ELSE <<limb - 1 - n.mid, limb - n.lo>>

\* to_uint32(double): the result as its two 16-bit limbs <<high, low>>
to_uint32(n) ==
  IF n.kind = "nan" \/ is_zero(n) \/ n.kind = "inf" THEN <<0, 0>>
  ELSE LET i == to_integer_inner(n)
       IN  minus_max_times(i, floor_div_max(i))

\* static_cast<int32_t> of a uint32_t given by its limbs
to_int32_cast(r) ==
  IF r[1] < limb \div 2 THEN r[1] * limb + r[2]
  ELSE (r[1] - limb) * limb + r[2]

\* to_int32(double)
to_int32(n) == to_int32_cast(to_uint32(n))

\* the conversions of one double
ToUint32(n) ==
  /\ result' = [NoResult EXCEPT !.op = "to_uint32", !.want = n, !.got = to_uint32(n)]
  /\ UNCHANGED <<heaps, storage, next_free, pointers, hp, gc_state, new_heap, req,
                 serial, destroyed, snap>>
  /\ UNCHANGED <<parserVars, typeVars>>

ToInt32(n) ==
  /\ result' = [NoResult EXCEPT !.op = "to_int32", !.want = n, !.got = to_int32(n)]
  /\ UNCHANGED <<heaps, storage, next_free, pointers, hp, gc_state, new_heap, req,
                 serial, destroyed, snap>>
  /\ UNCHANGED <<parserVars, typeVars>>

InitConvert == HeapInit({}) /\ ParserIdle

NextConvert ==
  \/ \E n \in Doubles : ToUint32(n)
  \/ \E n \in Doubles : ToInt32(n)

SpecConvert == InitConvert /\ [][NextConvert]_vars

\* ------------------------------------------------------------------------
\* Conversion to 32-bit integers
\* ------------------------------------------------------------------------
ConvertsToZero(n) == n.kind \in {"nan", "inf"} \/ is_zero(n)

\* <<high, low>> are the limbs of a number below 2^32
IsUint32(r) == r[1] \in 0 .. limb - 1 /\ r[2] \in 0 .. limb - 1

\* the number with the limbs r differs from sign(n) * floor(|n|) by a
\* multiple of 2^32: for n >= 0 the low 32 bits of floor(n) are r, for
\* n < 0 the sum r + floor(|n|) has its low 32 bits zero
Congruent(r, n) ==
  IF ~n.neg THEN r = <<n.mid, n.lo>>
  ELSE LET low == r[2] + n.lo
           high == r[1] + n.mid + low \div limb
       IN  low % limb = 0 /\ high % limb = 0

\* the limbs of the 32-bit two's-complement pattern of the integer v
PatternOf(v) == <<(v \div limb) % limb, v % limb>>

min_int32 == (0 - limb \div 2) * limb
max_int32 == (limb \div 2 - 1) * limb + (limb - 1)

Four_billion_and == Double("finite", FALSE, 1, 0, 1, 1)
Minus_one == Double("finite", TRUE, 0, 0, 1, 0)
Two_to_31 == Double("finite", FALSE, 0, limb \div 2, 0, 0)

\* C16: to_uint32(n) is 0 for NaN, +0, -0 and the infinities; otherwise it
\* is the one r in [0, 2^32) congruent modulo 2^32 to sign(n) * floor(|n|)
\* (4294967297.5 gives 1, -1 gives 4294967295); to_int32(n) is r read as a
\* signed 32-bit two's-complement number.
C16_Conversions ==
  /\ result.op = "to_uint32" =>
       /\ IsUint32(result.got)
       /\ IF ConvertsToZero(result.want) THEN result.got = <<0, 0>>
          ELSE Congruent(result.got, result.want)
       /\ result.want = Four_billion_and => result.got = <<0, 1>>
       /\ result.want = Minus_one => result.got = <<limb - 1, limb - 1>>
  /\ result.op = "to_int32" =>
       /\ result.got >= min_int32
       /\ result.got <= max_int32
       /\ IF ConvertsToZero(result.want) THEN result.got = 0
          ELSE Congruent(PatternOf(result.got), result.want)
       /\ result.want = Minus_one => result.got = 0 - 1
       /\ result.want = Two_to_31 => result.got = min_int32

\* a negative number with a fraction, beyond 2^32, has been converted
C16_Witness ==
  /\ result.op = "to_uint32" /\ result.want.kind = "finite" /\ result.want.neg
  /\ result.want.hi > 0 /\ result.want.half = 1 /\ result.want.lo > 0
  /\ result.got[1] > 0

\* a number with the bit 2^31 set has been read as a negative int32
C16_WitnessSigned ==
  /\ result.op = "to_int32" /\ result.want.kind = "finite" /\ ~result.want.neg
  /\ result.want.mid >= limb \div 2 /\ result.got < 0

\* an infinity has been converted
C16_WitnessInfinity ==
  /\ result.op = "to_uint32" /\ result.want.kind = "inf" /\ result.got = <<0, 0>>

\* ------------------------------------------------------------------------
\* Registration of types
\* ------------------------------------------------------------------------
\* gc_type_info_registration<T>::get().get_index()
GetRegistration(T) ==
  /\ registered' = registration_get(registered, T)
  /\ result' = [NoResult EXCEPT !.op = "get",
                                !.got = [type |-> T, x |-> get_index(registered', T)]]
  /\ UNCHANGED <<heaps, storage, next_free, pointers, hp, gc_state, new_heap, req,
                 serial, destroyed, snap, constructing, objects>>
  /\ UNCHANGED parserVars

\* the program before its first registration
InitTypes == NewHeaps({}) /\ registered = << >> /\ objects = NoObjects /\ ParserIdle

NextTypes == \E T \in TypeNames : GetRegistration(T)

SpecTypes == InitTypes /\ [][NextTypes]_vars

IsRegistered(reg, T) == \E i \in 1 .. Len(reg) : reg[i] = T

\* the indices under which T is found in reg
IndicesOf(reg, T) == {i - 1 : i \in {j \in 1 .. Len(reg) : reg[j] = T}}

\* C17: registering a type is idempotent: every call for the same type gives
\* the same registration with the same index, the index of a type never
\* changes, different types have different indices, and no index is the
\* sentinel of an unallocated or of a forwarded slot.
C17_Registration ==
  [][ /\ \A T \in TypeNames :
           /\ IsRegistered(registered, T) =>
                /\ IndicesOf(registered', T) = IndicesOf(registered, T)
                /\ (result'.op = "get" /\ result'.got.type = T) =>
                     /\ registered' = registered
                     /\ result'.got.x = get_index(registered, T)
           /\ Cardinality(IndicesOf(registered', T)) <= 1
           /\ IndicesOf(registered', T) \cap
                {unallocated_type_index, gc_moved_type_index} = {}
      /\ \A T, U \in TypeNames :
           (T /= U /\ IsRegistered(registered', T) /\ IsRegistered(registered', U))
             => get_index(registered', T) /= get_index(registered', U)
      /\ result'.op = "get" =>
           IndicesOf(registered', result'.got.type) = {result'.got.x} ]_vars

\* every type is registered and the first of them has been asked for again
C17_Witness ==
  /\ Len(registered) = Cardinality(TypeNames)
  /\ result.op = "get" /\ result.got.type = registered[1] /\ result.got.x = 0

\* ------------------------------------------------------------------------
\* Tracking the untracked handle embedded in an object
\* ------------------------------------------------------------------------
\* gc_heap_ptr_untracked::track on the field of the node that q names:
\* unsafe_create_from_position hands out a tracked handle to the position
\* the field holds
Track(p, q) ==
  /\ Idle /\ p = FreeHandle /\ hp[q].live
  /\ hp[q].heap_ \in heaps
  /\ TypeAt(hp[q].heap_, q) = T_node
  /\ storage[hp[q].heap_][hp[q].pos_].word /= 0
  /\ hp' = [hp EXCEPT ![p] = [live |-> TRUE, heap_ |-> hp[q].heap_,
                              pos_ |-> storage[hp[q].heap_][hp[q].pos_].word]]
  /\ pointers' = attach(pointers, hp[q].heap_, p)
  /\ result' = [NoResult EXCEPT !.op = "track"]
  /\ snap' = NoSnap
  /\ UNCHANGED <<heaps, storage, next_free, gc_state, new_heap, req, serial, destroyed>>
  /\ UNCHANGED <<parserVars, typeVars>>

NextTrack ==
  \/ Next
  \/ \E p, q \in HandleIds : Track(p, q)

SpecTrack == Init /\ [][NextTrack]_vars

\* ------------------------------------------------------------------------
\* Validity of tracked handles
\* ------------------------------------------------------------------------
ValidPosition(g, pos) ==
  /\ pos > 0 /\ pos < next_free[g]
  /\ pos - 1 \in Records(storage[g], next_free[g])
  /\ active(storage[g][pos - 1])

\* C18: outside a running collection every tracked handle in the pointer
\* set of a heap has 0 < pos < next_free, and the slot pos - 1 is the header
\* of an active record; after any sequence of allocate_and_construct, track
\* of an untracked handle, handle copy, assignment and destruction and
\* garbage_collect.
C18_TrackedHandlesValid ==
  Idle =>
    \A g \in heaps : \A i \in 1 .. Len(pointers[g]) :
      ValidPosition(g, hp[pointers[g][i]].pos_)

\* the field of a node has been tracked after a collection that moved the
\* node and freed the first allocation; no other handle names the object
C18_Witness ==
  /\ result.op = "track" /\ destroyed[1] > 0
  /\ \E p \in HandleIds :
       /\ hp[p].live /\ pointers[1] /= << >> /\ pointers[1][Len(pointers[1])] = p
       /\ \A q \in HandleIds \ {p} : hp[q].live /\ hp[q].pos_ /= hp[p].pos_

\* ------------------------------------------------------------------------
\* Allocations that fill most of the heap
\* ------------------------------------------------------------------------
\* a string that leaves one slot of the heap free
LargeRequests(g, p) ==
  { [BaseReq(g, p) EXCEPT !.T = T_string, !.num_bytes = (Cap - 2) * slot_size,
                          !.data = 1] }

NextLarge ==
  \/ Next
  \/ \E p \in HandleIds : AllocFits(1, p, LargeRequests(1, p))
  \/ \E p \in HandleIds : AllocCollects(1, p, LargeRequests(1, p))

SpecLarge == Init /\ [][NextLarge]_vars

\* ------------------------------------------------------------------------
\* The bump pointer
\* ------------------------------------------------------------------------
\* where the walk over the records from pos ends
RECURSIVE WalkEnd(_, _, _)
WalkEnd(st, pos, nf) ==
  IF pos >= nf \/ st[pos].size = 0 THEN pos
  ELSE WalkEnd(st, pos + st[pos].size, nf)

\* the slots below nf are records laid end to end
GapFree(st, nf) == nf <= Cap /\ WalkEnd(st, 0, nf) = nf

\* an allocation with no collection in this step: the new record starts at
\* the old next_free, behind every record there is, and next_free moves to
\* its end
AllocatesAtEnd(g) ==
  LET h == HeaderOf(storage'[g], next_free'[g], serial') IN
  /\ h = next_free[g]
  /\ next_free'[g] = h + storage'[g][h].size
  /\ storage'[g][h].size >= 2
  /\ \A r \in Records(storage[g], next_free[g]) :
       r + storage[g][r].size <= h /\ storage'[g][r] = storage[g][r]

\* next_free is within the capacity and the storage gap-free, in the heap
\* and in the destination heap of a running collection; allocations without
\* a collection in between follow one another
BumpPointer ==
  /\ \A g \in heaps' : GapFree(storage'[g], next_free'[g])
  /\ gc_state'.phase /= "idle" => GapFree(new_heap'.storage, new_heap'.next_free)
  /\ \A g \in heaps \cap heaps' :
       /\ (Idle /\ serial' = serial + 1) => AllocatesAtEnd(g)
       /\ (Idle /\ gc_state'.phase = "idle" /\ serial' = serial)
            => next_free'[g] = next_free[g]

\* the allocation has just failed (which it does at the end of the
\* collection it ran)
JustFailed == result'.status = "OUT_OF_MEMORY" /\ result.status /= "OUT_OF_MEMORY"

\* C19 as stated: in every heap state next_free <= capacity; between two
\* collections the header positions of successive allocations increase
\* strictly, each record starting where the one before ended, and the
\* storage below next_free is a gap-free sequence of records; a failed
\* allocation leaves next_free as it was when the allocation was called.
C19_BumpPointerUnchangedByFailure ==
  [][ /\ BumpPointer
      /\ JustFailed => next_free'[snap.g] = snap.next_free ]_vars

\* C19: the same, but a failed allocation leaves next_free where the
\* collection it ran has put it: at the size of the objects reachable when
\* the allocation was called, which is at most the next_free of that time;
\* the failed reservation itself takes nothing.
C19_BumpPointer ==
  [][ /\ BumpPointer
      /\ JustFailed =>
           /\ next_free'[snap.g] = SnapLiveSize
           /\ next_free'[snap.g] <= snap.next_free
           /\ serial' = serial ]_vars

\* a third allocation has followed two others with no collection
C19_Witness ==
  /\ result.op = "allocate" /\ result.status = "ok" /\ ~result.collected
  /\ serial = MaxAllocs /\ Cardinality(Records(storage[1], next_free[1])) = MaxAllocs
  /\ HeaderOf(storage[1], next_free[1], serial) > HeaderOf(storage[1], next_free[1], serial - 1)

\* an allocation has failed after its collection freed a record
C19_WitnessFailure ==
  /\ Idle /\ result.status = "OUT_OF_MEMORY" /\ snap.valid
  /\ next_free[snap.g] < snap.next_free

\* ------------------------------------------------------------------------
\* Every object is moved once
\* ------------------------------------------------------------------------
Collecting == gc_state.phase /= "idle"

\* the headers in the destination heap of the copies of allocation o
CopiesOf(o) ==
  {r \in Records(new_heap.storage, new_heap.next_free) : new_heap.storage[r].oid = o}

Forwarded(r) == storage[gc_state.heap][r].type = gc_moved_type_index

\* the old heap and the destination heap agree: a FORWARDED header names the
\* one copy of its object, an object whose header is not FORWARDED has no
\* copy, and a later gc_move of a FORWARDED position returns the position
\* in the header and moves nothing
MovedOnce ==
  \A r \in SnapRecords :
    LET o == snap.storage[r].oid IN
    IF Forwarded(r)
    THEN /\ CopiesOf(o) = {storage[gc_state.heap][r].word - 1}
         /\ gc_move(GcView, r + 1).ret = storage[gc_state.heap][r].word
         /\ gc_move(GcView, r + 1).nnf = new_heap.next_free
         /\ gc_move(GcView, r + 1).old = storage[gc_state.heap]
    ELSE CopiesOf(o) = {}

\* what is left to do: the roots not yet visited, the queued fixups, and,
\* counted twice, the records not yet moved
Remaining ==
  (gc_state.ptr_keep_count - gc_state.i) + Len(gc_state.pending_fixpus)
    + 2 * Cardinality({r \in SnapRecords : ~Forwarded(r)})

\* C20: within one garbage_collect every reachable object is moved to the
\* new heap exactly once, also with cycles and self-references through
\* untracked handles or packed values and with several tracked handles to
\* one object: the first gc_move of an object moves it and marks its old
\* header FORWARDED, every later gc_move or fixup of the position returns
\* the same forwarding position, and the collection terminates.
C20_MovedExactlyOnce ==
  [][ /\ Collecting' => MovedOnce'
      /\ (Collecting /\ Collecting') =>
           /\ \A r \in SnapRecords :
                Forwarded(r) => storage'[gc_state.heap][r] = storage[gc_state.heap][r]
           /\ Remaining' < Remaining
           /\ Remaining' >= 0
      /\ (Collecting /\ ~Collecting') =>
           /\ gc_state.i = gc_state.ptr_keep_count
           /\ gc_state.pending_fixpus = << >>
           /\ \A pos \in SnapReach : Forwarded(pos - 1) ]_vars

\* a collection has moved a node that names itself and that two handles name
C20_Witness ==
  /\ Collected
  /\ hp[1].live /\ hp[2].live /\ hp[1].pos_ = hp[2].pos_
  /\ storage[1][hp[1].pos_ - 1].type = T_node
  /\ storage[1][hp[1].pos_].word = hp[1].pos_
  /\ snap.hp[1].pos_ /= hp[1].pos_

\* a collection has moved a node and a box that name each other, the box
\* through its packed value
C20_WitnessCycle ==
  /\ Collected
  /\ \E p \in HandleIds :
       /\ hp[p].live /\ storage[1][hp[p].pos_ - 1].type = T_node
       /\ storage[1][hp[p].pos_].word /= 0
       /\ storage[1][storage[1][hp[p].pos_].word - 1].type = T_box
       /\ Embedded(storage[1], storage[1][hp[p].pos_].word) = {hp[p].pos_}
       /\ snap.hp[p].pos_ /= hp[p].pos_

\* ------------------------------------------------------------------------
\* allocate_and_construct, step by step
\* ------------------------------------------------------------------------
\* the deepest nesting of constructors that call allocate_and_construct
MaxDepth == 2

\* the call whose constructor runs innermost
TopFrame == constructing[Len(constructing)]

\* does the reference `a` of frame f still name the record the call reserved?
InPlace(f) ==
  /\ f.g \in heaps
  /\ storage[f.g][f.pos].oid = f.oid
  /\ storage[f.g][f.pos].type = unallocated_type_index

\* allocate_and_construct up to the call of the constructor: allocate() has
\* reserved the record and next_free is behind it
Reserve(g, R) ==
  \E r \in R :
    /\ Idle /\ g \in heaps /\ serial < MaxAllocs /\ Len(constructing) < MaxDepth
    /\ fits(next_free[g], r.num_bytes)
    /\ storage' = [storage EXCEPT ![g] =
                     allocate(storage[g], next_free[g], r.num_bytes, serial + 1)]
    /\ next_free' = [next_free EXCEPT ![g] = @ + num_slots_for(r.num_bytes)]
    /\ serial' = serial + 1
    /\ constructing' = Append(constructing,
                              [g |-> g, pos |-> next_free[g], oid |-> serial + 1, r |-> r])
    /\ result' = [NoResult EXCEPT !.op = "construct", !.status = "reserved",
                                  !.num_bytes = r.num_bytes]
    /\ snap' = NoSnap
    /\ UNCHANGED <<heaps, pointers, hp, gc_state, new_heap, req, destroyed>>
    /\ UNCHANGED <<parserVars, registered, objects>>

\* what the constructor and `a.type = ...` write, at the slots the call
\* took their addresses of
constructed(st, f, h) ==
  [i \in Positions |->
     IF i > f.pos /\ i < f.pos + num_slots_for(f.r.num_bytes)
     THEN construct(f.r, h, st, i - f.pos - 1)
     ELSE IF i = f.pos THEN [st[i] EXCEPT !.type = f.r.T]
     ELSE st[i]]

\* the constructor returns: the header gets its type and the call returns
\* the handle p at pos+1. If the heap was collected while the constructor
\* ran, `a` and the address of pos+1 name the released storage: the writes
\* are lost, or they hit the same slots of the storage the heap has now.
ConstructReturns ==
  /\ Idle /\ constructing /= << >> /\ FreeHandle /= 0
  /\ LET f == TopFrame
         p == FreeHandle
     IN /\ f.g \in heaps
        /\ \/ storage' = [storage EXCEPT ![f.g] = constructed(storage[f.g], f, hp)]
           \/ ~InPlace(f) /\ storage' = storage
        /\ hp' = [hp EXCEPT ![p] = [live |-> TRUE, heap_ |-> f.g, pos_ |-> f.pos + 1]]
        /\ pointers' = attach(pointers, f.g, p)
        /\ result' = [NoResult EXCEPT !.op = "construct",
                                      !.status = IF InPlace(f) THEN "ok" ELSE "undefined",
                                      !.num_bytes = f.r.num_bytes]
  /\ constructing' = SubSeq(constructing, 1, Len(constructing) - 1)
  /\ snap' = NoSnap
  /\ UNCHANGED <<heaps, next_free, gc_state, new_heap, req, serial, destroyed>>
  /\ UNCHANGED <<parserVars, registered, objects>>

\* the constructor raises: allocate_and_construct is left before
\* `a.type = ...`, nothing is caught and nothing is undone
ConstructRaises ==
  /\ Idle /\ constructing /= << >>
  /\ constructing' = SubSeq(constructing, 1, Len(constructing) - 1)
  /\ result' = [NoResult EXCEPT !.op = "construct", !.status = "raised",
                                !.num_bytes = TopFrame.r.num_bytes]
  /\ snap' = NoSnap
  /\ UNCHANGED <<heaps, storage, next_free, pointers, hp, gc_state, new_heap, req,
                 serial, destroyed>>
  /\ UNCHANGED <<parserVars, registered, objects>>

\* the handles a running call was given as arguments are the caller's: the
\* constructor leaves them alone, only a collection gives them new positions
ArgsKept ==
  \A i \in 1 .. Len(constructing) :
    LET q == constructing[i].r.src IN
    q /= 0 => (hp'[q] = hp[q] \/ (~Idle /\ hp'[q].live /\ hp'[q].heap_ = hp[q].heap_))

\* the program has done nothing whose behaviour is undefined
Defined == result.status /= "undefined"

\* The program with constructors that run step by step. A constructor is
\* code of the program: while it runs it may do what the mutator does,
\* allocate and collect included, but it does not destroy the heap. A run
\* is followed up to its first step of undefined behaviour.
NextConstruct ==
  \/ Defined /\ Next /\ (constructing = << >> \/ heaps' = heaps) /\ ArgsKept
  \/ Defined /\ \E p \in HandleIds : Reserve(1, HeapRequests(1, p))
  \/ Defined /\ ConstructReturns
  \/ Defined /\ ConstructRaises

SpecConstruct == Init /\ [][NextConstruct]_vars

\* the records of heap g below next_free whose header is UNALLOCATED
Unallocated(g) ==
  {pos \in Records(storage[g], next_free[g]) :
     storage[g][pos].type = unallocated_type_index}

\* C21: a record with header UNALLOCATED exists only while the
\* allocate_and_construct call that reserved it runs: when no call runs, be
\* it that every call returned or that a constructor raised, no record below
\* next_free is UNALLOCATED, and no collection runs on a heap that has such
\* a record.
C21_UnallocatedOnlyDuringCall ==
  \A g \in heaps :
    /\ constructing = << >> => Unallocated(g) = {}
    /\ (gc_state.phase /= "idle" /\ gc_state.heap = g) => Unallocated(g) = {}

\* a constructor has raised and left its record behind
C21_WitnessRaised ==
  /\ result.status = "raised" /\ constructing = << >>
  /\ Unallocated(1) /= {}

\* a collection started by a constructor's own allocation
C21_WitnessCollects ==
  /\ constructing /= << >> /\ gc_state.phase /= "idle" /\ req.active
  /\ Unallocated(gc_state.heap) /= {}

\* a call that returned in the regular way
C21_WitnessReturned ==
  /\ result.op = "construct" /\ result.status = "ok" /\ constructing = << >>
  /\ Unallocated(1) = {}

\* ------------------------------------------------------------------------
\* Handles made and dropped by hooks while a collection runs
\* ------------------------------------------------------------------------
\* no hook of the running collection holds a handle of its own
HooksDone ==
  IF Idle THEN TRUE ELSE Len(pointers[gc_state.heap]) = gc_state.ptr_keep_count

\* a handle constructed since the collection started
MadeByHook(p) == hp[p].live /\ ~snap.hp[p].live

\* a hook copies a handle: gc_heap_ptr_untyped(const gc_heap_ptr_untyped&)
\* attaches the copy to the heap that is being collected
HookCopy(p, q) ==
  /\ ~Idle /\ p = FreeHandle /\ hp[q].live /\ hp[q].heap_ = gc_state.heap
  /\ hp' = [hp EXCEPT ![p] = hp[q]]
  /\ pointers' = attach(pointers, hp[q].heap_, p)
  /\ UNCHANGED <<heaps, storage, next_free, gc_state, new_heap, req, result, serial,
                 destroyed, snap>>
  /\ UNCHANGED <<parserVars, typeVars>>

\* the hook's handle goes out of scope: ~gc_heap_ptr_untyped()
HookDestroy(p) ==
  /\ ~Idle /\ MadeByHook(p) /\ hp[p].heap_ = gc_state.heap
  /\ pointers' = detach(pointers, hp[p].heap_, p)
  /\ hp' = [hp EXCEPT ![p] = DeadHandle]
  /\ UNCHANGED <<heaps, storage, next_free, gc_state, new_heap, req, result, serial,
                 destroyed, snap>>
  /\ UNCHANGED <<parserVars, typeVars>>

\* the collector's steps run between the hooks, a hook's handles live within
\* one step
NextHooks ==
  \/ HooksDone /\ Next
  \/ \E p, q \in HandleIds : HookCopy(p, q)
  \/ \E p \in HandleIds : HookDestroy(p)

SpecHooks == Init /\ [][NextHooks]_vars

\* pointer_set::erase: the index i (from 0) at which the search from the
\* back finds p, and the assertion made on it
erase_index(set_, p) ==
  (CHOOSE i \in 1 .. Len(set_) : set_[i] = p /\ \A j \in i + 1 .. Len(set_) : set_[j] /= p) - 1

erase_assertion(set_, p, ptr_keep_count) == erase_index(set_, p) >= ptr_keep_count

\* the first ptr_keep_count entries of a pointer set
Kept(set_) == SubSeq(set_, 1, gc_state.ptr_keep_count)

\* C22: while a collection runs, the first ptr_keep_count entries of the
\* pointer set of the heap being collected stay what and where they are: a
\* handle attached meanwhile is appended behind them, a handle detached
\* meanwhile is found at an index >= ptr_keep_count, so that the assertion of
\* erase holds; the committed pointer set starts with the same entries.
C22_RootsKept ==
  [][ ~Idle =>
        LET g == gc_state.heap
            k == gc_state.ptr_keep_count
            old == pointers[g]
            new == pointers'[g]
        IN /\ Len(old) >= k /\ Len(new) >= k
           /\ Kept(new) = Kept(old)
           /\ \A p \in HandleIds :
                /\ (Count(new, p) > Count(old, p)) => new = Append(old, p)
                /\ (Count(new, p) < Count(old, p)) =>
                     /\ erase_assertion(old, p, k)
                     /\ new = RemoveAt(old, erase_index(old, p) + 1) ]_vars

\* a hook's handle is registered behind two roots, one of them moved
C22_Witness ==
  /\ ~Idle /\ gc_state.ptr_keep_count >= 1 /\ gc_state.i >= 1
  /\ Len(pointers[gc_state.heap]) > gc_state.ptr_keep_count

\* a collection of two roots is half done
C22_WitnessTwoRoots ==
  /\ ~Idle /\ gc_state.ptr_keep_count = 2 /\ gc_state.i = 1

\* ------------------------------------------------------------------------
\* The extent stacks
\* ------------------------------------------------------------------------
ExpressionKinds ==
  {"identifier", "literal", "postfix", "prefix", "conditional", "binary", "call"}

\* the nodes parse() has produced so far and kept
Produced ==
  UNION {AllNodes(out[i]) : i \in 1 .. Len(out)}

\* the extent start of a node made with no scope on its stack
NoScope == Top(<< >>)

\* C23: the two extent stacks are balanced: whenever a statement has been
\* parsed or has raised, and so when parse() returns or raises and the
\* parser is torn down, both stacks are empty; every expression node and
\* every statement node took its extent from a scope of its stack.
C23_ScopesBalanced ==
  /\ expression_pos_ = << >>
  /\ statement_pos_ = << >>
  /\ \A n \in Produced :
       n[1] \in ExpressionKinds \cup StatementKinds => n[2] /= NoScope

\* parse() raised inside a block inside a function body or block: scopes of
\* both stacks were open
C23_WitnessError ==
  /\ pstate = "error"
  /\ Len(tokens) >= 3
  /\ tokens[1].type = "lbrace" /\ tokens[2].type = "lbrace"
  /\ tokens[3].type \in {"identifier", "return_"}
  /\ cur >= 4

\* parse() returned a block in a block with an expression in it
C23_Witness ==
  /\ pstate = "done"
  /\ \E n \in AllNodes(ast) :
       /\ n[1] = "block_statement" /\ n /= ast
       /\ \E m \in AllNodes(n) : m[1] \in ExpressionKinds

\* ------------------------------------------------------------------------
\* The extents of the nodes
\* ------------------------------------------------------------------------
\* the nodes made by make_expression and make_statement
ExtentNodes == {n \in Produced : n[1] \in ExpressionKinds \cup StatementKinds}

\* the indices of the tokens get_token hands out, and of the end of input
SignificantTokens == {i \in 1 .. Len(tokens) : Significant(i)}

\* the offset is the start of a token the parser stops at
IsTokenStart(x) ==
  \E i \in SignificantTokens \cup {Len(tokens) + 1} : x = Offset(i)

\* C24: every node has the extent [entry_start, last_token_end): it starts
\* where a token starts, the current token when its scope was entered, and
\* it ends where the last token consumed before its production ends, a token
\* of the extent; no whitespace or line terminator behind that token is part
\* of the extent.
C24_Extents ==
  \A n \in ExtentNodes :
    /\ IsTokenStart(n[2])
    /\ \E j \in SignificantTokens : Offset(j) >= n[2] /\ n[3] = text_position(j)

\* What the parser does: the extent ends at token_start_, where the token
\* behind the last consumed one starts
C24_ExtentsToNextToken ==
  \A n \in ExtentNodes :
    /\ IsTokenStart(n[2])
    /\ \E j \in SignificantTokens :
         Offset(j) >= n[2] /\ n[3] = Offset(NextSignificant(j))

\* a parsed statement whose last token has whitespace behind it
C24_WitnessBlankBehind ==
  /\ pstate = "done"
  /\ \E n \in ExtentNodes :
       \E j \in SignificantTokens :
         /\ Offset(j) >= n[2] /\ n[3] = Offset(NextSignificant(j))
         /\ NextSignificant(j) > j + 1

\* a parsed program without whitespace: a block with a statement in it
C24_Witness ==
  /\ pstate = "done" /\ Len(tokens) = MaxTokens
  /\ \A i \in 1 .. Len(tokens) : Significant(i)
  /\ \E n \in ExtentNodes : n[1] = "block_statement" /\ Len(n[5]) >= 1

\* ------------------------------------------------------------------------
\* line_break_skipped_ where it is read
\* ------------------------------------------------------------------------
\* the decisions that read line_break_skipped_
FlagReads == Events("semicolon") \cup Events("postfix") \cup Events("return")

\* C25: wherever the parser reads line_break_skipped_, for a postfix
\* operator, for the expression of a return and for a semicolon, the flag is
\* true iff a line terminator lies between the last consumed token and the
\* current token: a line break skipped before an earlier token is forgotten
\* when a token is consumed.
C25_FlagIsLineBreakBefore ==
  \A i \in FlagReads : log[i].flag <=> LineTerminatorBefore(log[i].at)

\* a line break was seen by one decision and forgotten by a later one
C25_Witness ==
  \E i, j \in FlagReads :
    /\ log[i].at < log[j].at
    /\ log[i].flag /\ ~log[j].flag
    /\ log[i].fn = "postfix" /\ log[j].fn = "postfix"

\* a return and a semicolon check behind a line break
C25_WitnessReturn ==
  \E i, j \in FlagReads :
    /\ log[i].fn = "return" /\ log[i].flag
    /\ log[j].fn = "semicolon" /\ log[j].flag /\ log[j].at = log[i].at

\* ------------------------------------------------------------------------
\* `return` before `}` and before the end of input
\* ------------------------------------------------------------------------
\* texts with a `return` that is followed on its line by `}` or by nothing
ReturnTexts ==
  {<<T_return>>, <<T_return, T_space>>,
   <<T_lbrace, T_return, T_rbrace>>, <<T_lbrace, T_return, T_space, T_rbrace>>,
   <<T_lbrace, T_space, T_return, T_rbrace>>}

\* the index of the `return` of such a text
ReturnIndex == CHOOSE k \in 1 .. Len(tokens) : TokType(k) = "return_"

\* C26: a `return` directly followed by `}` or by the end of input, with no
\* line terminator in between, is parsed as a return statement without
\* expression: `return` and `{ return }` parse.
C26_ReturnBeforeBraceOrEnd ==
  (tokens \in ReturnTexts /\ pstate /= "run") =>
    /\ pstate = "done"
    /\ \E r \in ReturnAt(ReturnIndex) : r[5] = <<NoNode>>

\* What the parser does with these texts: the token after `return` is taken
\* for the start of an expression and is reported
C26_ReturnBeforeBraceRaises ==
  (tokens \in ReturnTexts /\ pstate /= "run") =>
    /\ pstate = "error"
    /\ ast = Node("error", Offset(NextSignificant(ReturnIndex)),
                  text_position(NextSignificant(ReturnIndex)), "Unhandled token", << >>)

\* `{ return }` has been given to the parser and parse() is over
C26_WitnessBlock ==
  tokens = <<T_lbrace, T_return, T_rbrace>> /\ pstate /= "run"

\* with a line terminator before the `}` the return statement is produced
C26_WitnessNextLine ==
  /\ tokens = <<T_lbrace, T_return, T_newline, T_rbrace>> /\ pstate = "done"
  /\ \E r \in ReturnAt(2) : r[5] = <<NoNode>>

\* ------------------------------------------------------------------------
\* The loops of the parser
\* ------------------------------------------------------------------------
MaxLoopTokens == 5  \* longest token stream of operators, operands and braces

\* operands, binary operators of three precedences, one of them right to
\* left, the conditional operator, braces
LoopTokens ==
  {[type |-> "identifier", text |-> "a"],
   [type |-> "multiply", text |-> "*"], [type |-> "plus", text |-> "+"],
   [type |-> "equal", text |-> "="],
   [type |-> "question", text |-> "?"], [type |-> "colon", text |-> ":"],
   [type |-> "lbrace", text |-> "{"], [type |-> "rbrace", text |-> "}"]}

InitLoops ==
  /\ HeapInit({})
  /\ tokens \in UNION {[1 .. n -> LoopTokens] : n \in 0 .. MaxLoopTokens}
  /\ cur = NewParser.cur
  /\ token_start_ = NewParser.token_start_
  /\ line_break_skipped_ = NewParser.line_break_skipped_
  /\ expression_pos_ = NewParser.expression_pos_
  /\ statement_pos_ = NewParser.statement_pos_
  /\ log = NewParser.log
  /\ out = << >>
  /\ ast = NoNode
  /\ pstate = "run"

SpecLoops == InitLoops /\ [][NextParser]_vars

\* the tokens parse() has not consumed
Remaining_tokens == Len(tokens) + 1 - cur

\* the iterations of the block loop and of the two loops of
\* parse_expression1 that came to their end
Turns(l) == {i \in 1 .. Len(l) : l[i].fn \in {"block", "outer", "inner"}}

\* C27: parse() terminates: an iteration of the loop over the statements
\* that does not raise consumes at least one token, and so does every
\* iteration of the block loop and of the outer and the inner loop of
\* parse_expression1 that does not raise; the number of tokens left falls
\* with every statement and is never negative, and parse() returns when it
\* is zero.
C27_LoopsConsume ==
  [][ /\ (pstate = "run" /\ pstate' = "run") =>
           /\ Remaining_tokens' < Remaining_tokens
           /\ Remaining_tokens' >= 0
      /\ (pstate = "run" /\ Remaining_tokens = 0) => pstate' = "done"
      /\ pstate \in {"done", "error"} => UNCHANGED vars
      /\ \A i \in Turns(log') : log'[i].acted ]_vars

\* an expression whose inner loop ran has been parsed
C27_Witness ==
  /\ pstate = "done"
  /\ \E i, j \in Turns(log) : log[i].fn = "inner" /\ log[j].fn = "outer"

\* a block whose loop ran around an expression has been parsed
C27_WitnessBlock ==
  /\ pstate = "done"
  /\ \E i, j \in Turns(log) : log[i].fn = "block" /\ log[j].fn = "outer"

\* ------------------------------------------------------------------------
\* object::garbage_collect(roots)
\* ------------------------------------------------------------------------
MaxObjects == 3     \* the objects of all_objects_
MaxRoots == 2       \* most roots given to garbage_collect

Objects == 1 .. MaxObjects

\* the sequences of distinct objects of up to MaxRoots entries
RootLists ==
  {r \in UNION {[1 .. n -> Objects] : n \in 0 .. MaxRoots} :
     \A i, j \in 1 .. Len(r) : i /= j => r[i] /= r[j]}

\* all_objects_ before garbage_collect: every object has a value and the
\* objects that its object-valued properties name; roots is the argument
InitObjects ==
  /\ NewHeaps({})
  /\ registered = [i \in 1 .. Len(types_) |-> types_[i].name_]
  /\ ParserIdle
  /\ \E g \in [Objects -> SUBSET Objects] : \E r \in RootLists :
       objects = [NoObjects EXCEPT !.properties_ = g, !.graph = g,
                                   !.value_ = [o \in Objects |-> "value"],
                                   !.roots = r, !.phase = "mark"]

ObjectStep == UNCHANGED <<heapVars, parserVars, registered, constructing>>

\* a frame of gc_visit: the object and the properties the loop has not
\* reached yet
Frame(o) == [this |-> o, todo |-> objects.properties_[o]]

\* garbage_collect, the loop over the roots: gc_visit is called on the next
\* root and inserts it into live_objects
GcVisitRoot ==
  /\ objects.phase = "mark" /\ objects.stack = << >>
  /\ objects.next_root <= Len(objects.roots)
  /\ LET o == objects.roots[objects.next_root] IN
     objects' = [objects EXCEPT !.next_root = @ + 1,
                                !.live_objects = @ \cup {o},
                                !.stack = <<Frame(o)>>]
  /\ ObjectStep

\* gc_visit, the loop over the properties: it calls gc_visit on the object
\* of the next object-valued property, whether that object is in
\* live_objects or not. A recursion deeper than the number of objects is
\* within the visit of an object it visits again: it repeats itself and
\* does not return.
GcVisitProperty ==
  /\ objects.phase = "mark" /\ objects.stack /= << >>
  /\ LET n == Len(objects.stack) IN
     \E t \in objects.stack[n].todo :
       objects' = IF n >= MaxObjects
                  THEN [objects EXCEPT !.phase = "overflow"]
                  ELSE [objects EXCEPT !.live_objects = @ \cup {t},
                                       !.stack = Append([@ EXCEPT ![n].todo = @ \ {t}],
                                                        Frame(t))]
  /\ ObjectStep

\* gc_visit returns at the end of its loop
GcVisitReturn ==
  /\ objects.phase = "mark" /\ objects.stack /= << >>
  /\ objects.stack[Len(objects.stack)].todo = {}
  /\ objects' = [objects EXCEPT !.stack = SubSeq(@, 1, Len(@) - 1)]
  /\ ObjectStep

\* an object::clear that leaves the properties
clear_value_only(ob, o) == [ob EXCEPT !.value_[o] = "undefined"]

\* object::clear
clear(ob, o) == [ob EXCEPT !.value_[o] = "undefined", !.properties_[o] = {}]

RECURSIVE ClearAll(_, _)
ClearAll(ob, S) ==
  IF S = {} THEN ob
  ELSE LET o == CHOOSE x \in S : TRUE IN ClearAll(clear(ob, o), S \ {o})

\* garbage_collect behind the roots: the objects of all_objects_ that are
\* not in live_objects are collected in to_delete and cleared
GcSweep ==
  /\ objects.phase = "mark" /\ objects.stack = << >>
  /\ objects.next_root > Len(objects.roots)
  /\ LET to_delete == Objects \ objects.live_objects IN
     objects' = [ClearAll(objects, to_delete) EXCEPT !.phase = "returned"]
  /\ ObjectStep

NextObjects == GcVisitRoot \/ GcVisitProperty \/ GcVisitReturn \/ GcSweep

SpecObjects == InitObjects /\ [][NextObjects]_vars

\* the objects reachable from the set S through object-valued properties of
\* the graph the collection was called with
RECURSIVE ReachableObjects(_)
ReachableObjects(S) ==
  LET T == S \cup UNION {objects.graph[o] : o \in S} IN
  IF T = S THEN S ELSE ReachableObjects(T)

RootObjects == {objects.roots[i] : i \in 1 .. Len(objects.roots)}

\* a reachable object reaches itself
Cyclic ==
  \E o \in ReachableObjects(RootObjects) : o \in ReachableObjects(objects.graph[o])

Cleared == {o \in Objects : objects.value_[o] = "undefined"}

\* on return exactly the unreachable objects are cleared, the others are as
\* they were
ClearedUnreachable ==
  objects.phase = "returned" =>
     /\ Cleared = Objects \ ReachableObjects(RootObjects)
     /\ \A o \in Cleared : objects.properties_[o] = {}
     /\ \A o \in Objects \ Cleared : objects.properties_[o] = objects.graph[o]

\* C28: garbage_collect(roots) returns for every object graph, graphs with
\* cycles and self-references included: the recursion of gc_visit ends; on
\* return it has cleared exactly the objects that the roots do not reach
\* through object-valued properties and left the others unchanged.
C28_CollectsEveryGraph ==
  /\ objects.phase /= "overflow"
  /\ ClearedUnreachable

\* What holds: the same for the graphs in which no reachable object reaches
\* itself
C28_CollectsAcyclic ==
  /\ ~Cyclic => objects.phase /= "overflow"
  /\ ClearedUnreachable

\* a root that names itself: the recursion has not returned
C28_WitnessCycle ==
  /\ objects.phase = "overflow"
  /\ objects.roots = <<1>> /\ objects.graph[1] = {1}

\* a collection without cycle has returned, with cleared and kept objects
C28_WitnessAcyclic ==
  /\ objects.phase = "returned" /\ ~Cyclic
  /\ Cleared /= {} /\ Cardinality(ReachableObjects(RootObjects)) >= 2

====
